---- MODULE Spec2Model ----
(***************************************************************************)
(* The runtime override engine of integr8-nestjs: the override registry,   *)
(* the interception wrappers installed by the patch manager, the sandboxed *)
(* compiler, the control-plane controller and its authorization gate.      *)
(*                                                                         *)
(* The process is a single Node.js event loop: every handler below is      *)
(* synchronous code (no await), so each one is one atomic action.          *)
(***************************************************************************)
EXTENDS Integers, Sequences, FiniteSets, TLC

VARIABLES
    store,       \* TestOverridesRegistry.store : Map<token, OverrideRecord>
    proxies,     \* TestOverridesPatchManager.proxies : token -> wrapped operation names
    envEnabled,  \* process.env.INTEGR8_OVERRIDES_ENABLED
    envToken,    \* process.env.INTEGR8_OVERRIDES_TOKEN
    last,        \* the most recent event: a control-plane request with its response,
                 \* an intercepted call with its outcome, or an environment change
    hist,        \* history, per token: the kind of the last completed registry mutation
    adapter,     \* the NestJSAdapter behind app.get('INTEGR8_ADAPTER'): its two maps
                 \* and its references
    live,        \* the provider objects of the application: per provider, what each
                 \* property holds now
    envMode,     \* process.env.INTEGR8_MODE
    pending      \* the intercepted calls that returned a promise not yet settled

avars == <<adapter, live, envMode>>
vars == <<store, proxies, envEnabled, envToken, last, hist, adapter, live, envMode,
          pending>>

----------------------------------------------------------------------------
(* Text. Header and environment values are character sequences, so that    *)
(* the gate's regular expression is computed and not assumed.              *)

Str1 == <<"1">>
StrTrue == <<"t", "r", "u", "e">>
SecretK1 == <<"k", "1">>
SecretK2 == <<"k", "2">>
BearerWord == <<"B", "e", "a", "r", "e", "r">>
LowerBearerWord == <<"b", "e", "a", "r", "e", "r">>
BasicWord == <<"B", "a", "s", "i", "c">>
Space == <<" ">>

\* An optional string: a header that may be missing, an env variable that may be unset.
Unset == [present |-> FALSE, text |-> <<>>]
Val(s) == [present |-> TRUE, text |-> s]

\* x || ''
OrEmpty(x) == IF x.present THEN x.text ELSE <<>>

LowerChar(c) ==
    CASE c = "B" -> "b"
      [] c = "E" -> "e"
      [] c = "A" -> "a"
      [] c = "R" -> "r"
      [] OTHER -> c

LowerStr(s) == [i \in 1..Len(s) |-> LowerChar(s[i])]

IsSpaceChar(c) == c \in {" ", "\t"}

RECURSIVE DropSpaces(_)
DropSpaces(s) ==
    IF s # <<>> /\ IsSpaceChar(Head(s)) THEN DropSpaces(Tail(s)) ELSE s

\* hdr.replace(/^Bearer\s+/i, ''): the word in any case followed by at least one
\* whitespace character is removed from the front; anything else is left as it is.
StripBearer(s) ==
    IF Len(s) >= 7
       /\ LowerStr(SubSeq(s, 1, 6)) = LowerBearerWord
       /\ IsSpaceChar(s[7])
    THEN DropSpaces(SubSeq(s, 7, Len(s)))
    ELSE s

----------------------------------------------------------------------------
(* The authorization gate: TestOverridesAuthMiddleware.use.                *)

\* Variant: the configured secret is not required to be non-empty.
AuthUseNoSecretCheck(enabled, secret, hdr) ==
    LET token == StripBearer(OrEmpty(hdr))
        expected == OrEmpty(secret)
    IN  IF ~(enabled.present /\ enabled.text = Str1)
        THEN [gate |-> "disabled", cred |-> <<>>]
        ELSE IF token # expected
             THEN [gate |-> "unauthorized", cred |-> token]
             ELSE [gate |-> "pass", cred |-> token]

AuthUse(enabled, secret, hdr) ==
    LET token == StripBearer(OrEmpty(hdr))
        expected == OrEmpty(secret)
    IN  IF ~(enabled.present /\ enabled.text = Str1)
        THEN [gate |-> "disabled", cred |-> <<>>]
        ELSE IF expected = <<>> \/ token # expected
             THEN [gate |-> "unauthorized", cred |-> token]
             ELSE [gate |-> "pass", cred |-> token]

----------------------------------------------------------------------------
(* JavaScript values, as far as the engine's behaviour depends on them.    *)

NumV(n) == [t |-> "num", n |-> n, s |-> ""]
StrV(x) == [t |-> "str", n |-> 0, s |-> x]
ObjV(id) == [t |-> "obj", n |-> 0, s |-> id]
ErrV(msg) == [t |-> "error", n |-> 0, s |-> msg]
UndefV == [t |-> "undefined", n |-> 0, s |-> ""]
NaNV == [t |-> "nan", n |-> 0, s |-> ""]
\* A promise that will be fulfilled with the number n, and what it is fulfilled with.
PromiseV(n) == [t |-> "promise", n |-> n, s |-> ""]
Fulfilment(p) == NumV(p.n)

\* The end of one execution of a function: it returns, it throws, or it never ends.
Returns(v) == [kind |-> "return", val |-> v]
Throws(v) == [kind |-> "throw", val |-> v]
Hangs == [kind |-> "hang", val |-> UndefV]

----------------------------------------------------------------------------
(* Source texts submitted to the control plane, and what each does when it *)
(* runs. A text stands for itself; BodyMissing and BodyNumber stand for a  *)
(* JSON field that is absent or is not a string.                           *)

BodyMul == "return a*b;"
BodyBoom == "throw new Error('boom');"
BodyLoop == "while (true) {}"
BodyProdX == "return { add: () => 'X' };"
BodyProdBoom == "return { add: () => { throw new Error('boom'); } };"
BodyBadSyntax == "this is not valid javascript {{{"
BodyCallSub == "return this.sub(a, b);"
BodyReadProcess == "return process;"
BodyEscapeGlobal == "return Date.constructor('return process')();"
BodyEscapeThis == "return this.constructor.constructor('return process')();"
BodyLater1 == "return new Promise((resolve) => setTimeout(() => resolve(1), 50));"
BodyLater2 == "return new Promise((resolve) => setTimeout(() => resolve(2), 50));"
BodyProdCounter == "let n = 0; return { add: () => ++n };"
BodyEmpty == ""
BodyMissing == "<undefined>"
BodyNumber == "<number 42>"

IsStringValue(body) == body \notin {BodyMissing, BodyNumber}
Parses(body) == body # BodyBadSyntax

\* A compiled function: the text and the parameter names it was compiled with.
Fn(body, params) == [body |-> body, params |-> params]
NoFn == [body |-> "<none>", params |-> <<>>]

ParamIndex(params, name) ==
    IF \E i \in 1..Len(params) : params[i] = name
    THEN CHOOSE i \in 1..Len(params) :
            /\ params[i] = name
            /\ \A j \in (i + 1)..Len(params) : params[j] # name
    ELSE 0

\* The members of the objects the factory texts build.
ObjMethods(id) ==
    CASE id = "objX" -> {"add"}
      [] id = "objBoom" -> {"add"}
      [] id = "objCounter" -> {"add"}
      [] OTHER -> {}

\* factoryInst && typeof factoryInst[methodName] === 'function'
Exposes(v, m) == v.t = "obj" /\ m \in ObjMethods(v.s)

CallObjMethod(v, m, args) ==
    CASE v.s = "objX" -> Returns(StrV("X"))
      [] v.s = "objBoom" -> Throws(ErrV("boom"))
      [] v.s = "objCounter" -> Returns(NumV(v.n + 1))
      [] OTHER -> Throws(ErrV("TypeError"))

\* The globals of the context the functions are compiled in: the sandbox object.
SandboxGlobals ==
    {"Math", "Date", "JSON", "Promise", "Array", "Object", "String", "Number",
     "Boolean", "parseInt", "parseFloat", "isNaN", "isFinite", "setTimeout",
     "clearTimeout", "setInterval", "clearInterval"}

\* The name a body starts from.
RootOf(body) ==
    CASE body = BodyReadProcess -> "process"
      [] body = BodyEscapeGlobal -> "Date"
      [] body \in {BodyEscapeThis, BodyCallSub} -> "this"
      [] OTHER -> "none"

\* What a name denotes inside a compiled function: this is the receiver, a name
\* of the sandbox is the host's own object of that name (the sandbox holds
\* references, not copies), and any other name is not defined.
Resolve(root, this) ==
    IF root = "this" THEN this
    ELSE IF root \in SandboxGlobals THEN ObjV(root)
    ELSE UndefV

\* x.constructor.constructor('return process')(), or for a function
\* x.constructor('return process')(): the constructor reached from an object of
\* the host is the host's Function, and the function it builds runs in the
\* host's global scope.
HostProcess == ObjV("process")
ViaConstructor(x) ==
    IF x.t = "obj" THEN Returns(HostProcess) ELSE Throws(ErrV("TypeError"))

\* The end of a body whose result is the result of a call through its receiver.
Invokes(this, m, args) == [kind |-> "invoke", val |-> this, m |-> m, args |-> args]

\* One invocation fn.apply(this, args) of a compiled function. Nothing bounds
\* its running time: compileFunctionInSandbox returns vm.compileFunction's result as is.
Exec(fn, this, args) ==
    CASE fn.body = BodyMul ->
            LET ia == ParamIndex(fn.params, "a")
                ib == ParamIndex(fn.params, "b")
            IN  IF ia = 0 \/ ib = 0 THEN Throws(ErrV("ReferenceError"))
                ELSE IF ia > Len(args) \/ ib > Len(args) THEN Returns(NaNV)
                ELSE Returns(NumV(args[ia] * args[ib]))
      [] fn.body = BodyBoom -> Throws(ErrV("boom"))
      [] fn.body = BodyLoop -> Hangs
      [] fn.body = BodyProdX -> Returns(ObjV("objX"))
      [] fn.body = BodyProdBoom -> Returns(ObjV("objBoom"))
      [] fn.body = BodyProdCounter -> Returns(ObjV("objCounter"))
      [] fn.body = BodyLater1 -> Returns(PromiseV(1))
      [] fn.body = BodyLater2 -> Returns(PromiseV(2))
      [] fn.body = BodyReadProcess ->
            IF Resolve(RootOf(fn.body), this) = UndefV
            THEN Throws(ErrV("ReferenceError"))
            ELSE Returns(Resolve(RootOf(fn.body), this))
      [] fn.body \in {BodyEscapeGlobal, BodyEscapeThis} ->
            ViaConstructor(Resolve(RootOf(fn.body), this))
      [] fn.body = BodyCallSub ->
            LET ia == ParamIndex(fn.params, "a")
                ib == ParamIndex(fn.params, "b")
            IN  IF ia = 0 \/ ib = 0 THEN Throws(ErrV("ReferenceError"))
                ELSE IF Resolve(RootOf(fn.body), this).t # "obj"
                THEN Throws(ErrV("TypeError"))
                ELSE IF ia > Len(args) \/ ib > Len(args)
                THEN Invokes(this, "sub", <<>>)
                ELSE Invokes(this, "sub", <<args[ia], args[ib]>>)
      [] OTHER -> Returns(UndefV)

----------------------------------------------------------------------------
(* The sandboxed compiler: compileFunctionInSandbox.                       *)

DefaultTimeoutMs == 5000

CompileOk(fn) == [ok |-> TRUE, fn |-> fn, error |-> ""]
CompileFail(msg) == [ok |-> FALSE, fn |-> NoFn, error |-> msg]

\* timeoutMs is accepted and never used.
compileFunctionInSandbox(body, params, timeoutMs) ==
    IF ~IsStringValue(body) \/ body = BodyEmpty
    THEN CompileFail("Function body must be a non-empty string")
    ELSE IF ~Parses(body)
         THEN CompileFail("Failed to compile function")
         ELSE CompileOk(Fn(body, params))

----------------------------------------------------------------------------
(* The override registry: TestOverridesRegistry. The store is a function   *)
(* whose domain is the set of tokens that have a record. A record's        *)
(* methods is a JavaScript Map: a sequence of entries in insertion order.  *)

NoRecord == [hasMethods |-> FALSE, methods |-> <<>>, factory |-> NoFn]

Entry(name, fn) == [name |-> name, fn |-> fn]

MapHas(ms, name) == \E i \in 1..Len(ms) : ms[i].name = name
MapGet(ms, name) == (CHOOSE i \in 1..Len(ms) : ms[i].name = name)
MapFn(ms, name) == ms[MapGet(ms, name)].fn
\* Map.prototype.set: an existing key keeps its place, a new key goes last.
MapSet(ms, name, fn) ==
    IF MapHas(ms, name)
    THEN [ms EXCEPT ![MapGet(ms, name)] = Entry(name, fn)]
    ELSE Append(ms, Entry(name, fn))
MapKeys(ms) == [i \in 1..Len(ms) |-> ms[i].name]
KeySet(ms) == {ms[i].name : i \in 1..Len(ms)}

RECURSIVE MapSetAll(_, _)
MapSetAll(ms, patches) ==
    IF patches = <<>> THEN ms
    ELSE MapSetAll(MapSet(ms, Head(patches).name, Head(patches).fn), Tail(patches))

Has(st, token) == token \in DOMAIN st

Put(st, token, rec) ==
    [t \in DOMAIN st \cup {token} |-> IF t = token THEN rec ELSE st[t]]

\* get: the record, or undefined.
RegGet(st, token) ==
    IF Has(st, token) THEN [found |-> TRUE, rec |-> st[token]]
    ELSE [found |-> FALSE, rec |-> NoRecord]

\* Variant: a record is listed only once it has a methods map.
RegListMethodsOnly(st) ==
    [t \in {u \in DOMAIN st : st[u].hasMethods} |->
        [methods |-> MapKeys(st[t].methods),
         hasFactory |-> st[t].factory # NoFn]]

RegList(st) ==
    [t \in DOMAIN st |->
        [methods |-> IF st[t].hasMethods THEN MapKeys(st[t].methods) ELSE <<>>,
         hasFactory |-> st[t].factory # NoFn]]

\* Variant: only the first patch of a call is stored.
RegSetMethodsFirstOnly(st, token, patches) ==
    LET rec == IF Has(st, token) THEN st[token]
               ELSE [hasMethods |-> TRUE, methods |-> <<>>, factory |-> NoFn]
        ms == IF rec.hasMethods THEN rec.methods ELSE <<>>
    IN  Put(st, token,
            [rec EXCEPT !.hasMethods = TRUE,
                        !.methods = IF patches = <<>> THEN ms
                                    ELSE MapSet(ms, Head(patches).name, Head(patches).fn)])

\* Variant: patches for a token other than the wrapped provider are dropped.
RegSetMethodsKnownOnly(st, token, patches) ==
    IF token # "Calc" THEN st
    ELSE LET rec == IF Has(st, token) THEN st[token]
                    ELSE [hasMethods |-> TRUE, methods |-> <<>>, factory |-> NoFn]
             ms == IF rec.hasMethods THEN rec.methods ELSE <<>>
         IN  Put(st, token,
                 [rec EXCEPT !.hasMethods = TRUE, !.methods = MapSetAll(ms, patches)])

\* Variant: the patches of a call replace the methods map instead of merging into it.
RegSetMethodsReplace(st, token, patches) ==
    LET rec == IF Has(st, token) THEN st[token]
               ELSE [hasMethods |-> TRUE, methods |-> <<>>, factory |-> NoFn]
    IN  Put(st, token,
            [rec EXCEPT !.hasMethods = TRUE, !.methods = MapSetAll(<<>>, patches)])

RegSetMethods(st, token, patches) ==
    LET rec == IF Has(st, token) THEN st[token]
               ELSE [hasMethods |-> TRUE, methods |-> <<>>, factory |-> NoFn]
        ms == IF rec.hasMethods THEN rec.methods ELSE <<>>
    IN  Put(st, token,
            [rec EXCEPT !.hasMethods = TRUE, !.methods = MapSetAll(ms, patches)])

\* Variant: installing a factory drops the method patches of the record.
RegSetFactoryClearsMethods(st, token, factory) ==
    Put(st, token, [NoRecord EXCEPT !.factory = factory])

RegSetFactory(st, token, factory) ==
    LET rec == IF Has(st, token) THEN st[token] ELSE NoRecord
    IN  Put(st, token, [rec EXCEPT !.factory = factory])

\* Variant: reset empties the methods and keeps the record with its factory.
RegResetKeepsRecord(st, token) ==
    IF Has(st, token) THEN Put(st, token, [st[token] EXCEPT !.methods = <<>>]) ELSE st

\* Variant: a reset of a token without a record leaves an empty record behind.
RegResetMarksAbsent(st, token) ==
    IF Has(st, token) THEN [t \in DOMAIN st \ {token} |-> st[t]]
    ELSE Put(st, token, NoRecord)

RegReset(st, token) == [t \in DOMAIN st \ {token} |-> st[t]]

\* Variant: only the record of the first token is removed.
RegResetAllFirstOnly(st) ==
    IF DOMAIN st = {} THEN st
    ELSE LET first == CHOOSE t \in DOMAIN st : TRUE
         IN  [t \in DOMAIN st \ {first} |-> st[t]]

RegResetAll(st) == [t \in {} |-> NoRecord]

----------------------------------------------------------------------------
(* The application's components. Calc is the provider the patch manager    *)
(* wraps; its operations are the methods of its own class.                 *)

\* The instance behind a token (InstanceWrapper.instance).
\* The provider whose instance the provider of this token holds: CalcValue is
\* provided by a factory that returns the instance of Calc.
SharedWith(token) == IF token = "CalcValue" THEN "Calc" ELSE token

InstanceOf(token) == [t |-> "obj", n |-> 0, s |-> SharedWith(token)]

\* instance[methodName].bind(instance), captured once at wrap time, run with args.
OrigRun(token, m, args) ==
    CASE token = "Calc" /\ m = "add" /\ Len(args) >= 2 -> Returns(NumV(args[1] + args[2]))
      [] token = "Calc" /\ m = "sub" /\ Len(args) >= 2 -> Returns(NumV(args[1] - args[2]))
      [] OTHER -> Returns(NaNV)

----------------------------------------------------------------------------
(* Bootstrap: onApplicationBootstrap walks the providers that discovery    *)
(* yields and patchInstanceMethods picks the names it wraps on each.       *)

\* What an instance looks like to patchInstanceMethods: the own properties of its
\* prototype (plain methods, accessors, other values), the methods it inherits
\* from a base class, and the function-valued properties of the instance itself.
Shape(methods, accessors, values, inherited, fields) ==
    [methods |-> methods, accessors |-> accessors, values |-> values,
     inherited |-> inherited, fields |-> fields]

\* Calc extends a base class that defines neg, has an accessor total, and is
\* given a function-valued property tap in its constructor.
ShapeOf(token) ==
    IF SharedWith(token) = "Calc"
    THEN Shape({"add", "sub"}, {"total"}, {}, {"neg"}, {"tap"})
    ELSE Shape({}, {}, {}, {}, {})

\* Object.getOwnPropertyNames(Object.getPrototypeOf(instance))
OwnPropertyNames(shape) ==
    {"constructor"} \cup shape.methods \cup shape.accessors \cup shape.values

\* typeof instance[name] === 'function'
IsFunctionOn(shape, name) ==
    name \in {"constructor"} \cup shape.methods \cup shape.inherited \cup shape.fields

\* The operations a caller can invoke on the instance.
Callable(shape) == shape.methods \cup shape.inherited \cup shape.fields

\* The filter of patchInstanceMethods: the names that get a wrapper.
MethodNames(shape) ==
    { name \in OwnPropertyNames(shape) :
        /\ name # "constructor"
        /\ name \notin shape.accessors
        /\ IsFunctionOn(shape, name) }

\* An InstanceWrapper of discovery.getProviders().
Provider(token, hasInstance, hasName, isAlias) ==
    [token |-> token, hasInstance |-> hasInstance, hasName |-> hasName,
     isAlias |-> isAlias]

\* The tokens of the engine's own providers. token.includes(...) is a substring
\* test; of the tokens discovered here only these four contain one of the words.
InternalTokens ==
    {"TestOverridesRegistry", "TestOverridesPatchManager", "DiscoveryService", "ModuleRef"}

\* The loop of onApplicationBootstrap over the wrappers, from the proxies px.
RECURSIVE onApplicationBootstrap(_, _)
onApplicationBootstrap(wrappers, px) ==
    IF wrappers = <<>> THEN px
    ELSE LET w == Head(wrappers)
             skip == \/ ~w.hasInstance \/ ~w.hasName \/ w.isAlias
                     \/ w.token \in InternalTokens
                     \/ w.token \in DOMAIN px
         IN  onApplicationBootstrap(
                 Tail(wrappers),
                 IF skip THEN px
                 ELSE [t \in DOMAIN px \cup {w.token} |->
                          IF t = w.token THEN MethodNames(ShapeOf(t)) ELSE px[t]])

\* const originalMethod = instance[methodName].bind(instance): for every name
\* patchInstanceMethods wraps on the instance of token, what it finds under that
\* name at that moment: the method of the class, or the wrapper an earlier
\* patchInstanceMethods put on the same instance.
BoundTargets(px, token) ==
    [name \in MethodNames(ShapeOf(token)) |->
        IF \E t \in DOMAIN px : InstanceOf(t) = InstanceOf(token) /\ name \in px[t]
        THEN "wrapper"
        ELSE "original"]

----------------------------------------------------------------------------
(* The interception wrapper installed by patchInstanceMethods, one per     *)
(* wrapped operation: the arrow function of lines 97-117.                  *)

Ran(unit, id) == [unit |-> unit, id |-> id]

Outcome(target, end, this, args, ran) ==
    [target |-> target, kind |-> end.kind, val |-> end.val,
     this |-> this, args |-> args, ran |-> ran]

\* Variant: the original is called without the caller's arguments.
UseOriginalNoArgs(token, m, args, ran) ==
    Outcome("original", OrigRun(token, m, <<>>), InstanceOf(token), <<>>,
            Append(ran, Ran("original", m)))

\* Variant: every wrapper is bound to the implementation of add.
UseOriginalOfAdd(token, m, args, ran) ==
    Outcome("original", OrigRun(token, "add", args), InstanceOf(token), args,
            Append(ran, Ran("original", m)))

UseOriginal(token, m, args, ran) ==
    Outcome("original", OrigRun(token, m, args), InstanceOf(token), args,
            Append(ran, Ran("original", m)))

RECURSIVE Wrapper(_, _, _, _)

\* A call the patch makes through its receiver: the receiver is the instance,
\* whose wrapped operations are the wrappers, so the call is intercepted in turn
\* (the registry is as it is: nothing else runs in between). A patch that
\* reaches itself this way exhausts the stack.
Nested(token, rec, m, e, ran) ==
    IF e.m = m THEN Outcome("patch", Throws(ErrV("RangeError")), e.val, e.args, ran)
    ELSE LET n == Wrapper([t \in {token} |-> rec], e.val.s, e.m, e.args)
         IN  [n EXCEPT !.target = "patch", !.ran = ran \o n.ran]

\* Variant: the patch is invoked without a receiver.
UseMethodPatchNoReceiver(token, rec, m, args, ran) ==
    LET patched == MapFn(rec.methods, m)
        e == Exec(patched, UndefV, args)
        ran1 == Append(ran, Ran("patch", patched.body))
    IN  IF e.kind = "invoke"
        THEN [Nested(token, rec, m, e, ran1) EXCEPT !.this = UndefV, !.args = args]
        ELSE Outcome("patch", e, UndefV, args, ran1)

UseMethodPatch(token, rec, m, args, ran) ==
    LET patched == MapFn(rec.methods, m)
        e == Exec(patched, InstanceOf(token), args)
        ran1 == Append(ran, Ran("patch", patched.body))
    IN  IF e.kind = "invoke"
        THEN [Nested(token, rec, m, e, ran1) EXCEPT !.this = InstanceOf(token), !.args = args]
        ELSE Outcome("patch", e, InstanceOf(token), args, ran1)

\* What follows the factory branch: the method patch if there is one, else the original.
AfterFactory(st, token, m, args, ran) ==
    IF Has(st, token) /\ st[token].hasMethods /\ MapHas(st[token].methods, m)
    THEN UseMethodPatch(token, st[token], m, args, ran)
    ELSE UseOriginal(token, m, args, ran)

\* Variant: the method patch is looked up before the factory.
WrapperPatchFirst(st, token, m, args) ==
    IF Has(st, token) /\ st[token].hasMethods /\ MapHas(st[token].methods, m)
    THEN UseMethodPatch(token, st[token], m, args, <<>>)
    ELSE IF Has(st, token) /\ st[token].factory # NoFn
    THEN LET made == Exec(st[token].factory, UndefV, <<>>)
             ran == <<Ran("factory", st[token].factory.body)>>
         IN  IF made.kind # "return"
             THEN Outcome("factory", made, UndefV, <<>>, ran)
             ELSE IF Exposes(made.val, m)
                  THEN Outcome("factory", CallObjMethod(made.val, m, args), made.val, args,
                               Append(ran, Ran("product", made.val.s)))
                  ELSE UseOriginal(token, m, args, ran)
    ELSE UseOriginal(token, m, args, <<>>)

\* Variant: an error of the factory is caught and the call falls back.
WrapperCatchFactory(st, token, m, args) ==
    IF Has(st, token) /\ st[token].factory # NoFn
    THEN LET made == Exec(st[token].factory, UndefV, <<>>)
             ran == <<Ran("factory", st[token].factory.body)>>
         IN  IF made.kind = "hang"
             THEN Outcome("factory", made, UndefV, <<>>, ran)
             ELSE IF made.kind = "return" /\ Exposes(made.val, m)
                  THEN Outcome("factory", CallObjMethod(made.val, m, args), made.val, args,
                               Append(ran, Ran("product", made.val.s)))
                  ELSE AfterFactory(st, token, m, args, ran)
    ELSE AfterFactory(st, token, m, args, <<>>)

\* Variant: the factory is invoked once to test its product and once more to call it.
WrapperFactoryTwice(st, token, m, args) ==
    IF Has(st, token) /\ st[token].factory # NoFn
    THEN LET made == Exec(st[token].factory, UndefV, <<>>)
             ran == <<Ran("factory", st[token].factory.body)>>
         IN  IF made.kind # "return"
             THEN Outcome("factory", made, UndefV, <<>>, ran)
             ELSE IF Exposes(made.val, m)
                  THEN Outcome("factory", CallObjMethod(made.val, m, args), made.val, args,
                               ran \o ran \o <<Ran("product", made.val.s)>>)
                  ELSE AfterFactory(st, token, m, args, ran)
    ELSE AfterFactory(st, token, m, args, <<>>)

Wrapper(st, token, m, args) ==
    IF Has(st, token) /\ st[token].factory # NoFn
    THEN LET made == Exec(st[token].factory, UndefV, <<>>)
             ran == <<Ran("factory", st[token].factory.body)>>
         IN  IF made.kind # "return"
             THEN Outcome("factory", made, UndefV, <<>>, ran)
             ELSE IF Exposes(made.val, m)
                  THEN Outcome("factory", CallObjMethod(made.val, m, args), made.val, args,
                               Append(ran, Ran("product", made.val.s)))
                  ELSE AfterFactory(st, token, m, args, ran)
    ELSE AfterFactory(st, token, m, args, <<>>)

----------------------------------------------------------------------------
(* The control plane: TestOverridesController behind the gate.             *)

\* A method entry of a payload: MethodPatch, with the keys a caller may send.
MethodSpec(name, type, body, args) ==
    [name |-> name, type |-> type, body |-> body, args |-> args, params |-> <<>>]

\* An entry that carries a body and a list under the key params, and no type and
\* no args: the handler reads spec.type (undefined) and spec.args ?? [].
TypeMissing == "<undefined>"
ParamsSpec(name, body, params) ==
    [name |-> name, type |-> TypeMissing, body |-> body, args |-> <<>>, params |-> params]

FactorySpec(body, args) == [body |-> body, args |-> args]
NoFactorySpec == [body |-> BodyMissing, args |-> <<>>]

\* A request body: the keys present, and the value under each. object is FALSE
\* for a body that reaches the handler as undefined; nulls are the keys whose
\* value is null.
Payload(keys, reset, methods, factory) ==
    [keys |-> keys, reset |-> reset, methods |-> methods, factory |-> factory,
     object |-> TRUE, nulls |-> {}]

Response(status, error, data) == [status |-> status, error |-> error, data |-> data]

NoData == [kind |-> "none"]

\* What the framework answers when a handler throws anything but an HttpException:
\* here the TypeError of 'reset' in body, Object.entries(null) or null.body.
InternalError == Response(500, "Internal server error", NoData)

\* The loop of set over Object.entries(body.methods): the first entry that is
\* rejected ends it; the patches are complete only if no entry is.
RECURSIVE CompileEntries(_, _)
CompileEntries(entries, patches) ==
    IF entries = <<>> THEN [status |-> 201, error |-> "", patches |-> patches]
    ELSE LET spec == Head(entries)
         IN  IF spec.type # "fn"
             THEN [status |-> 400, error |-> "Unsupported method patch type",
                   patches |-> patches]
             ELSE LET c == compileFunctionInSandbox(spec.body, spec.args, DefaultTimeoutMs)
                  IN  IF ~c.ok
                      THEN [status |-> 500, error |-> c.error, patches |-> patches]
                      ELSE CompileEntries(Tail(entries),
                                          MapSet(patches, spec.name, c.fn))

\* Variant: the patches compiled before the rejected entry are installed.
ControllerSetEager(st, token, body) ==
    IF token = ""
    THEN [resp |-> Response(400, "Missing token", NoData), store |-> st]
    ELSE IF ~body.object
    THEN [resp |-> InternalError, store |-> st]
    ELSE IF "reset" \in body.keys /\ body.reset
    THEN [resp |-> Response(201, "", [kind |-> "reset", token |-> token]),
          store |-> RegReset(st, token)]
    ELSE IF "methods" \in body.keys /\ "methods" \in body.nulls
    THEN [resp |-> InternalError, store |-> st]
    ELSE IF "methods" \in body.keys
    THEN LET c == CompileEntries(body.methods, <<>>)
         IN  IF c.status # 201
             THEN [resp |-> Response(c.status, c.error, NoData),
                   store |-> IF c.patches = <<>> THEN st
                             ELSE RegSetMethods(st, token, c.patches)]
             ELSE [resp |-> Response(201, "",
                                     [kind |-> "methods", token |-> token,
                                      methods |-> [i \in 1..Len(body.methods) |->
                                                      body.methods[i].name]]),
                   store |-> RegSetMethods(st, token, c.patches)]
    ELSE IF "factory" \in body.keys /\ "factory" \in body.nulls
    THEN [resp |-> InternalError, store |-> st]
    ELSE IF "factory" \in body.keys
    THEN LET c == compileFunctionInSandbox(body.factory.body, body.factory.args,
                                           DefaultTimeoutMs)
         IN  IF ~c.ok
             THEN [resp |-> Response(500, c.error, NoData), store |-> st]
             ELSE [resp |-> Response(201, "", [kind |-> "factory", token |-> token]),
                   store |-> RegSetFactory(st, token, c.fn)]
    ELSE [resp |-> Response(400, "Unsupported payload", NoData), store |-> st]

\* TestOverridesController.set: the response and the registry it leaves.
ControllerSet(st, token, body) ==
    IF token = ""
    THEN [resp |-> Response(400, "Missing token", NoData), store |-> st]
    ELSE IF ~body.object
    THEN [resp |-> InternalError, store |-> st]
    ELSE IF "reset" \in body.keys /\ body.reset
    THEN [resp |-> Response(201, "", [kind |-> "reset", token |-> token]),
          store |-> RegReset(st, token)]
    ELSE IF "methods" \in body.keys /\ "methods" \in body.nulls
    THEN [resp |-> InternalError, store |-> st]
    ELSE IF "methods" \in body.keys
    THEN LET c == CompileEntries(body.methods, <<>>)
         IN  IF c.status # 201
             THEN [resp |-> Response(c.status, c.error, NoData), store |-> st]
             ELSE [resp |-> Response(201, "",
                                     [kind |-> "methods", token |-> token,
                                      methods |-> [i \in 1..Len(body.methods) |->
                                                      body.methods[i].name]]),
                   store |-> RegSetMethods(st, token, c.patches)]
    ELSE IF "factory" \in body.keys /\ "factory" \in body.nulls
    THEN [resp |-> InternalError, store |-> st]
    ELSE IF "factory" \in body.keys
    THEN LET c == compileFunctionInSandbox(body.factory.body, body.factory.args,
                                           DefaultTimeoutMs)
         IN  IF ~c.ok
             THEN [resp |-> Response(500, c.error, NoData), store |-> st]
             ELSE [resp |-> Response(201, "", [kind |-> "factory", token |-> token]),
                   store |-> RegSetFactory(st, token, c.fn)]
    ELSE [resp |-> Response(400, "Unsupported payload", NoData), store |-> st]

\* TestOverridesController.list
ControllerList(st, px) ==
    [resp |-> Response(200, "", [kind |-> "list", overrides |-> RegList(st),
                                 proxiedProviders |-> DOMAIN px]),
     store |-> st]

\* TestOverridesController.resetAll
ControllerResetAll(st) ==
    [resp |-> Response(201, "", [kind |-> "resetAll"]), store |-> RegResetAll(st)]

\* TestOverridesController.health
ControllerHealth(st) ==
    [resp |-> Response(200, "", [kind |-> "health", status |-> "ok",
                                 integr8 |-> TRUE, overridesEnabled |-> TRUE]),
     store |-> st]

\* Variant: the route with the :token parameter is declared first.
RouteTokenFirst(method, path) ==
    IF method = "GET" /\ path = <<"overrides">> THEN "list"
    ELSE IF method = "POST" /\ Len(path) = 2 /\ path[1] = "override" /\ path[2] # ""
    THEN "set"
    ELSE IF method = "POST" /\ path = <<"override", "reset-all">> THEN "resetAll"
    ELSE IF method = "GET" /\ path = <<"health">> THEN "health"
    ELSE "none"

\* The routes of the controller in their order of declaration; the first that
\* matches the method and the path (its segments after /__integr8__) handles it.
Route(method, path) ==
    IF method = "GET" /\ path = <<"overrides">> THEN "list"
    ELSE IF method = "POST" /\ path = <<"override", "reset-all">> THEN "resetAll"
    ELSE IF method = "POST" /\ Len(path) = 2 /\ path[1] = "override" /\ path[2] # ""
    THEN "set"
    ELSE IF method = "GET" /\ path = <<"health">> THEN "health"
    ELSE "none"

Handle(st, px, method, path, body) ==
    LET route == Route(method, path)
    IN  CASE route = "list" -> ControllerList(st, px)
          [] route = "resetAll" -> ControllerResetAll(st)
          [] route = "set" -> ControllerSet(st, path[2], body)
          [] route = "health" -> ControllerHealth(st)
          [] OTHER -> [resp |-> Response(404, "Not Found", NoData), store |-> st]

----------------------------------------------------------------------------
(* Bounds: the inputs the model draws.                                     *)

MaxArg == 2
MaxSpaces == 2

CallArgs == {<<a, b>> : a \in 1..MaxArg, b \in 1..MaxArg}

RECURSIVE Spaces(_)
Spaces(k) == IF k = 0 THEN <<>> ELSE Space \o Spaces(k - 1)

AB == <<"a", "b">>

FnSpec(name, body) == MethodSpec(name, "fn", body, IF body = BodyMul THEN AB ELSE <<>>)

MethodsPayload(entries) == Payload({"methods"}, FALSE, entries, NoFactorySpec)
FactoryPayload(body) == Payload({"factory"}, FALSE, <<>>, FactorySpec(body, <<>>))
ResetPayload == Payload({"reset"}, TRUE, <<>>, NoFactorySpec)
ResetFalsePayload == Payload({"reset"}, FALSE, <<>>, NoFactorySpec)
EmptyPayload == Payload({}, FALSE, <<>>, NoFactorySpec)
ParamsMulPayload == MethodsPayload(<<ParamsSpec("add", BodyMul, AB)>>)
UndefinedBody == [EmptyPayload EXCEPT !.object = FALSE]
NullMethodsPayload == [MethodsPayload(<<>>) EXCEPT !.nulls = {"methods"}]
NullFactoryPayload == [Payload({"factory"}, FALSE, <<>>, NoFactorySpec) EXCEPT !.nulls = {"factory"}]

BadBodies == {BodyBadSyntax, BodyEmpty, BodyMissing, BodyNumber}

\* Payloads that are accepted.
GoodPayloads ==
    { MethodsPayload(<<FnSpec("add", BodyMul)>>),
      MethodsPayload(<<FnSpec("add", BodyBoom)>>),
      MethodsPayload(<<FnSpec("sub", BodyLoop)>>),
      MethodsPayload(<<FnSpec("add", BodyMul), FnSpec("sub", BodyBoom)>>),
      MethodsPayload(<<>>),
      FactoryPayload(BodyProdX),
      FactoryPayload(BodyProdBoom),
      FactoryPayload(BodyBoom),
      ResetPayload }

\* Payloads that are rejected: a body that does not compile, second or first of
\* two entries; a factory that does not compile; an unsupported entry type, first
\* or after a compiled entry; an entry without a type; no supported key at all;
\* null under methods or factory; and no body.
BadPayloads ==
    { MethodsPayload(<<FnSpec("add", BodyMul), FnSpec("sub", b)>>) : b \in BadBodies }
    \cup
    { MethodsPayload(<<FnSpec("add", BodyBadSyntax), FnSpec("sub", BodyBoom)>>),
      FactoryPayload(BodyBadSyntax),
      MethodsPayload(<<MethodSpec("add", "value", BodyMul, AB)>>),
      MethodsPayload(<<FnSpec("add", BodyMul), MethodSpec("sub", "value", BodyBoom, <<>>)>>),
      ParamsMulPayload,
      ResetFalsePayload,
      EmptyPayload,
      NullMethodsPayload,
      NullFactoryPayload,
      UndefinedBody }

GhostPayloads ==
    { MethodsPayload(<<FnSpec("add", BodyMul)>>), FactoryPayload(BodyProdX), ResetPayload }

\* The tokens that requests name: a wrapped provider and one that was never wrapped.
Tokens == {"Calc", "Ghost"}

Req(method, path, body) == [method |-> method, path |-> path, body |-> body]

Requests ==
    { Req("GET", <<"overrides">>, EmptyPayload),
      Req("POST", <<"override", "reset-all">>, EmptyPayload),
      Req("GET", <<"health">>, EmptyPayload),
      Req("GET", <<"override", "Calc">>, EmptyPayload) }
    \cup { Req("POST", <<"override", "Calc">>, b) : b \in GoodPayloads \cup BadPayloads }
    \cup { Req("POST", <<"override", "Ghost">>, b) : b \in GhostPayloads }

BearerHeader(k, secret) == Val(BearerWord \o Spaces(k) \o secret)

Headers == {Unset, BearerHeader(1, SecretK1)}
EnvEnabledValues == {Unset, Val(Str1)}
EnvTokenValues == {Val(SecretK1)}

\* The gate's cases: the scheme in either case, followed by 0..MaxSpaces spaces;
\* another secret; another scheme; the bare secret; nothing after the scheme.
GateHeaders ==
    {Unset, Val(<<>>), Val(SecretK1), Val(BasicWord \o Space \o SecretK1),
     Val(Space \o BearerWord \o Space \o SecretK1),
     BearerHeader(1, SecretK2), BearerHeader(1, <<>>)}
    \cup { BearerHeader(k, SecretK1) : k \in 0..MaxSpaces }
    \cup { Val(LowerBearerWord \o Spaces(k) \o SecretK1) : k \in 1..MaxSpaces }
GateEnvEnabledValues == {Unset, Val(Str1), Val(StrTrue)}
GateEnvTokenValues == {Unset, Val(<<>>), Val(SecretK1)}

GateRequests ==
    { Req("GET", <<"overrides">>, EmptyPayload),
      Req("POST", <<"override", "reset-all">>, EmptyPayload),
      Req("POST", <<"override", "Calc">>, MethodsPayload(<<FnSpec("add", BodyMul)>>)),
      Req("POST", <<"override", "Calc">>,
          MethodsPayload(<<FnSpec("add", BodyMul), FnSpec("sub", BodyBadSyntax)>>)),
      Req("POST", <<"override", "Calc">>, EmptyPayload) }

----------------------------------------------------------------------------
(* The adapter: NestJSAdapter. Types, names and keys are texts, sequences  *)
(* of pieces, so that the key `${type}:${name}` is built and split as the  *)
(* code builds and splits it.                                              *)

Colon == ":"
Text(word) == <<word>>

\* `${type}:${name}`
Key(type, name) == type \o <<Colon>> \o name

\* The pieces of s up to its first colon, and what follows that colon.
RECURSIVE UpToColon(_)
UpToColon(s) ==
    IF s = <<>> \/ Head(s) = Colon THEN <<>> ELSE <<Head(s)>> \o UpToColon(Tail(s))
AfterColon(s) ==
    IF Len(UpToColon(s)) >= Len(s) THEN <<>>
    ELSE SubSeq(s, Len(UpToColon(s)) + 2, Len(s))

\* const [type, name] = key.split(':'): the first two parts.
SplitKey(key) ==
    [type |-> UpToColon(key), name |-> UpToColon(AfterColon(key))]

\* An implementation as a request carries it: nothing, zero, or an object whose
\* properties hold the source of a function, text that is no JavaScript, or a number.
ImplMissing == [kind |-> "undefined", props |-> <<>>]
ImplZero == [kind |-> "number", props |-> <<>>]
ImplObj(props) == [kind |-> "object", props |-> props]
Prop(name, value) == [name |-> name, value |-> value]
SrcMock == "() => 'mock'"
SrcBad == "not javascript {"
Truthy(impl) == impl.kind \in {"object", "processed"}

\* processImplementation: a string that evaluates becomes what it evaluates to
\* (here a function), a string that does not is kept, anything else is kept.
ProcessValue(value) == IF value = SrcMock THEN "function:mock" ELSE value
processImplementation(impl) ==
    IF impl.kind # "object" THEN impl
    ELSE [kind |-> "processed",
          props |-> [i \in 1..Len(impl.props) |->
                        Prop(impl.props[i].name, ProcessValue(impl.props[i].value))]]
IsFunctionValue(value) == value = "function:mock"

\* The providers moduleRef.get finds, and what their properties hold at the start.
Providers == {"UserService"}
PristineLive == [p \in Providers |-> [m \in {"findAll", "findOne"} |-> "original"]]
NullProvider == "<null>"

\* moduleRef.get(name, { strict: false }): the provider, or an exception.
ModuleRefGet(name) ==
    IF Len(name) = 1 /\ name[1] \in Providers
    THEN [ok |-> TRUE, provider |-> name[1]]
    ELSE [ok |-> FALSE, provider |-> NullProvider]

\* The adapter's state. available: app.get('INTEGR8_ADAPTER') yields it.
\* standIn: the object registered under that name is not a NestJSAdapter but a
\* stand-in whose applyOverride and removeOverride reject.
NewAdapter(available, refs, standIn) ==
    [available |-> available, standIn |-> standIn,
     overrides |-> <<>>, originalProviders |-> <<>>,
     moduleRef |-> refs, app |-> refs]

\* The two maps are JavaScript Maps: sequences of [key, value] in insertion order.
KV(key, value) == [key |-> key, value |-> value]
KHas(mp, key) == \E i \in 1..Len(mp) : mp[i].key = key
KIndex(mp, key) == CHOOSE i \in 1..Len(mp) : mp[i].key = key
KGet(mp, key, default) == IF KHas(mp, key) THEN mp[KIndex(mp, key)].value ELSE default
KSet(mp, key, value) ==
    IF KHas(mp, key) THEN [mp EXCEPT ![KIndex(mp, key)] = KV(key, value)]
    ELSE Append(mp, KV(key, value))
KDelete(mp, key) == SelectSeq(mp, LAMBDA e : e.key # key)

Resolved(ad, lv) == [ok |-> TRUE, error |-> "", adapter |-> ad, live |-> lv]
Rejected(msg, ad, lv) == [ok |-> FALSE, error |-> msg, adapter |-> ad, live |-> lv]

\* Object.keys(processed).forEach: every property that holds a function is
\* assigned on the provider object.
RECURSIVE AssignMethods(_, _)
AssignMethods(obj, props) ==
    IF props = <<>> THEN obj
    ELSE LET p == Head(props)
             next == IF IsFunctionValue(p.value)
                     THEN [m \in DOMAIN obj \cup {p.name} |->
                              IF m = p.name THEN p.value ELSE obj[m]]
                     ELSE obj
         IN  AssignMethods(next, Tail(props))

overrideProvider(ad, lv, name, implementation) ==
    IF ~ad.moduleRef THEN Rejected("NestJS ModuleRef is not set", ad, lv)
    ELSE LET key == Key(Text("provider"), name)
             got == ModuleRefGet(name)
             processed == processImplementation(implementation)
         IN  IF ~got.ok THEN Rejected("Nest could not find the element", ad, lv)
             ELSE IF implementation.kind = "undefined"
             THEN Rejected("TypeError",
                           [ad EXCEPT !.originalProviders =
                               IF KHas(@, key) THEN @ ELSE KSet(@, key, got.provider)],
                           lv)
             ELSE Resolved(
                    [ad EXCEPT !.originalProviders =
                                  IF KHas(@, key) THEN @ ELSE KSet(@, key, got.provider),
                               !.overrides = KSet(@, key, processed)],
                    [lv EXCEPT ![got.provider] = AssignMethods(@, processed.props)])

overrideMiddleware(ad, lv, name, implementation) ==
    IF ~ad.app THEN Rejected("NestJS Application reference is not set", ad, lv)
    ELSE Resolved([ad EXCEPT !.originalProviders =
                      KSet(@, Key(Text("middleware"), name), NullProvider)], lv)

\* When the lookup of `${name}Repository` throws, the override is tried as a
\* regular provider.
overrideRepository(ad, lv, name, implementation) ==
    LET key == Key(Text("repository"), name)
        got == ModuleRefGet(name \o Text("Repository"))
    IN  IF ~ad.moduleRef THEN Rejected("NestJS ModuleRef is not set", ad, lv)
        ELSE IF got.ok
        THEN Resolved([ad EXCEPT !.originalProviders =
                                    IF KHas(@, key) THEN @ ELSE KSet(@, key, got.provider),
                                 !.overrides = KSet(@, key, implementation)], lv)
        ELSE overrideProvider(ad, lv, name, implementation)

ProviderTypes ==
    { Text(t) : t \in {"guard", "interceptor", "pipe", "service", "provider",
                       "controller", "dataSource"} }

applyOverrideToNestJS(ad, lv, type, name, implementation) ==
    IF type = Text("middleware") THEN overrideMiddleware(ad, lv, name, implementation)
    ELSE IF type \in ProviderTypes THEN overrideProvider(ad, lv, name, implementation)
    ELSE IF type = Text("repository") THEN overrideRepository(ad, lv, name, implementation)
    ELSE Resolved(ad, lv)

applyOverride(ad, lv, type, name, implementation) ==
    IF ad.standIn THEN Rejected("Override failed", ad, lv)
    ELSE applyOverrideToNestJS(
            [ad EXCEPT !.overrides = KSet(@, Key(type, name), implementation)],
            lv, type, name, implementation)

\* restoreOriginalProvider returns without doing anything.
restoreOriginalProvider(ad, lv, type, name, originalProvider) == lv

removeOverride(ad, lv, type, name) ==
    LET key == Key(type, name)
    IN  IF ad.standIn THEN Rejected("Remove failed", ad, lv)
        ELSE IF KHas(ad.overrides, key) /\ Truthy(KGet(ad.overrides, key, ImplMissing))
        THEN Resolved(
               [ad EXCEPT !.overrides = KDelete(@, key),
                          !.originalProviders = KDelete(@, key)],
               restoreOriginalProvider(ad, lv, type, name,
                                       KGet(ad.originalProviders, key, NullProvider)))
        ELSE Resolved(ad, lv)

\* Variant: only the overrides with a stored original are dropped.
teardownRestoredOnly(ad, lv) ==
    Resolved([ad EXCEPT !.overrides =
                            SelectSeq(@, LAMBDA e : ~KHas(ad.originalProviders, e.key)),
                        !.originalProviders = <<>>], lv)

teardown(ad, lv) ==
    Resolved([ad EXCEPT !.overrides = <<>>, !.originalProviders = <<>>], lv)

\* this.overrides.has(key)
hasOverride(ad, type, name) == KHas(ad.overrides, Key(type, name))

\* this.overrides.get(key): undefined when the key is not there.
getOverride(ad, type, name) == KGet(ad.overrides, Key(type, name), ImplMissing)

listOverrides(ad) ==
    [i \in 1..Len(ad.overrides) |->
        [type |-> SplitKey(ad.overrides[i].key).type,
         name |-> SplitKey(ad.overrides[i].key).name,
         hasImplementation |-> Truthy(ad.overrides[i].value)]]

----------------------------------------------------------------------------
(* The test middleware: createTestMiddleware. A path is the sequence of    *)
(* its segments, each a text; '/__integr8__/health' is two segments.       *)

Prefix == "__integr8__"
StrFalse == <<"f", "a", "l", "s", "e">>

\* req.path.startsWith('/__integr8__')
StartsWithPrefix(path) == path # <<>> /\ path[1] # <<>> /\ path[1][1] = Prefix

HealthPath == <<Text(Prefix), Text("health")>>
OverridePath == <<Text(Prefix), Text("override")>>
OverridesPath == <<Text(Prefix), Text("overrides")>>

\* /^\/__integr8__\/override\/[^/]+\/[^/]+$/
MatchesRemove(path) ==
    /\ Len(path) = 4
    /\ path[1] = Text(Prefix)
    /\ path[2] = Text("override")
    /\ path[3] # <<>>
    /\ path[4] # <<>>

\* !x of an optional string
Falsy(x) == ~x.present \/ x.text = <<>>

MwReq(method, path, body) == [method |-> method, path |-> path, body |-> body]
\* req.body: undefined when no body was parsed, else an object with these fields.
MwBody(type, name, implementation) ==
    [object |-> TRUE, type |-> type, name |-> name, implementation |-> implementation]
NoBody == [object |-> FALSE, type |-> Unset, name |-> Unset, implementation |-> ImplMissing]

MwResponse(status, body) == [status |-> status, body |-> body]
ErrorBody(error, message) == [kind |-> "error", error |-> error, message |-> Text(message)]
HealthBody(mode) ==
    [kind |-> "health", status |-> "ok", integr8 |-> TRUE, mode |-> mode = Val(StrTrue)]
SuccessBody(what, type, name) ==
    [kind |-> "success", success |-> TRUE, message |-> Text(what) \o Key(type, name)]
ListBody(overrides) ==
    [kind |-> "list", count |-> Len(overrides), overrides |-> overrides]

\* What one run of the middleware did: whether it called next(), the responses it
\* wrote, the adapter methods it called, and the adapter and providers after it.
MwOut(next, responses, calls, ad, lv) ==
    [next |-> next, responses |-> responses, calls |-> calls, adapter |-> ad, live |-> lv]
Answer(status, body, calls, ad, lv) ==
    MwOut(FALSE, <<MwResponse(status, body)>>, calls, ad, lv)
\* The catch block.
Caught(message, calls, ad, lv) ==
    Answer(500, ErrorBody("Internal server error", message), calls, ad, lv)

\* Variant: a request outside the prefix is answered 404.
TestMiddlewareAnswersAll(ad, lv, mode, req) ==
    Answer(404, ErrorBody("Not found", "Unknown Integr8 endpoint"), <<>>, ad, lv)

\* Variant: the adapter is looked up before the health check is answered.
TestMiddlewareAdapterFirst(ad, lv, mode, req) ==
    IF ~StartsWithPrefix(req.path) THEN MwOut(TRUE, <<>>, <<>>, ad, lv)
    ELSE IF ~ad.available
    THEN Answer(503, ErrorBody("Integr8 adapter not available",
                    "Make sure Integr8TestModule is imported in your application"),
                <<>>, ad, lv)
    ELSE Answer(200, HealthBody(mode), <<>>, ad, lv)

\* Variant: a failing adapter call is not caught and the success answer is written.
TestMiddlewareNoCatch(ad, lv, mode, req) ==
    IF ~StartsWithPrefix(req.path) THEN MwOut(TRUE, <<>>, <<>>, ad, lv)
    ELSE IF req.method = "POST"
    THEN Answer(200, SuccessBody("Override applied: ", req.body.type.text,
                                 req.body.name.text), <<"applyOverride">>, ad, lv)
    ELSE Answer(200, SuccessBody("Override removed: ", <<>>, <<>>),
                <<"removeOverride">>, ad, lv)

TestMiddleware(ad, lv, mode, req) ==
    IF ~StartsWithPrefix(req.path) THEN MwOut(TRUE, <<>>, <<>>, ad, lv)
    ELSE IF req.path = HealthPath /\ req.method = "GET"
    THEN Answer(200, HealthBody(mode), <<>>, ad, lv)
    ELSE IF ~ad.available
    THEN Answer(503, ErrorBody("Integr8 adapter not available",
                    "Make sure Integr8TestModule is imported in your application"),
                <<>>, ad, lv)
    ELSE IF req.path = OverridePath /\ req.method = "POST"
    THEN IF ~req.body.object
         THEN Caught("Cannot destructure property 'type' of 'req.body'", <<>>, ad, lv)
         ELSE IF \/ Falsy(req.body.type)
                 \/ Falsy(req.body.name)
                 \/ ~Truthy(req.body.implementation)
         THEN Answer(400, ErrorBody("Invalid request",
                         "Request must include type, name, and implementation"),
                     <<>>, ad, lv)
         ELSE LET r == applyOverride(ad, lv, req.body.type.text, req.body.name.text,
                                     req.body.implementation)
              IN  IF r.ok
                  THEN Answer(200, SuccessBody("Override applied: ", req.body.type.text,
                                               req.body.name.text),
                              <<"applyOverride">>, r.adapter, r.live)
                  ELSE Caught(r.error, <<"applyOverride">>, r.adapter, r.live)
    ELSE IF MatchesRemove(req.path) /\ req.method = "DELETE"
    THEN LET r == removeOverride(ad, lv, req.path[3], req.path[4])
         IN  IF r.ok
             THEN Answer(200, SuccessBody("Override removed: ", req.path[3], req.path[4]),
                         <<"removeOverride">>, r.adapter, r.live)
             ELSE Caught(r.error, <<"removeOverride">>, r.adapter, r.live)
    ELSE IF req.path = OverridesPath /\ req.method = "GET"
    THEN Answer(200, ListBody(listOverrides(ad)), <<"listOverrides">>, ad, lv)
    ELSE Answer(404, ErrorBody("Not found", "Unknown Integr8 endpoint"), <<>>, ad, lv)

----------------------------------------------------------------------------
(* The state machine.                                                      *)

\* The middleware guards the routes of the controller.
GateApplies(route) == route # "none"

\* An intercepted call that never returns blocks the event loop: nothing else runs.
Alive == ~(last.kind = "call" /\ last.out.kind = "hang")

\* The application after bootstrap: Calc's own methods are wrapped.
BootProxies == [t \in {"Calc"} |-> {"add", "sub"}]

InitWith(enabledValues, tokenValues) ==
    /\ store = [t \in {} |-> NoRecord]
    /\ proxies = BootProxies
    /\ envEnabled \in enabledValues
    /\ envToken \in tokenValues
    /\ last = [kind |-> "init"]
    /\ hist = [t \in Tokens |-> "none"]
    /\ adapter = NewAdapter(TRUE, TRUE, FALSE)
    /\ live = PristineLive
    /\ envMode = Unset
    /\ pending = {}

\* Variant: the handler runs before the gate decides.
PipelineHandlerFirst(st, px, enabled, secret, hdr, req) ==
    LET route == Route(req.method, req.path)
        g == IF GateApplies(route) THEN AuthUse(enabled, secret, hdr)
             ELSE [gate |-> "none", cred |-> <<>>]
        h == Handle(st, px, req.method, req.path, req.body)
    IN  [route |-> route, gate |-> g.gate, cred |-> g.cred,
         resp |-> IF g.gate = "disabled"
                  THEN Response(401, "Overrides disabled", NoData)
                  ELSE IF g.gate = "unauthorized"
                  THEN Response(401, "Invalid token", NoData)
                  ELSE h.resp,
         store |-> h.store]

\* The way of one request: the middleware throws, or calls next() and the
\* controller's handler runs.
Pipeline(st, px, enabled, secret, hdr, req) ==
    LET route == Route(req.method, req.path)
        g == IF GateApplies(route) THEN AuthUse(enabled, secret, hdr)
             ELSE [gate |-> "none", cred |-> <<>>]
        h == IF g.gate = "disabled"
             THEN [resp |-> Response(401, "Overrides disabled", NoData), store |-> st]
             ELSE IF g.gate = "unauthorized"
             THEN [resp |-> Response(401, "Invalid token", NoData), store |-> st]
             ELSE Handle(st, px, req.method, req.path, req.body)
    IN  [route |-> route, gate |-> g.gate, cred |-> g.cred,
         resp |-> h.resp, store |-> h.store]

\* The history after a response: which tokens' records a completed request set or removed.
HistAfter(h, resp) ==
    IF resp.status # 201 THEN h
    ELSE CASE resp.data.kind = "resetAll" ->
                [t \in Tokens |-> IF h[t] \in {"applied", "cleared"} THEN "cleared" ELSE "reset"]
           [] resp.data.kind = "reset" /\ resp.data.token \in Tokens ->
                [h EXCEPT ![resp.data.token] =
                    IF @ \in {"applied", "cleared"} THEN "cleared" ELSE "reset"]
           [] resp.data.kind \in {"methods", "factory"} /\ resp.data.token \in Tokens ->
                [h EXCEPT ![resp.data.token] = "applied"]
           [] OTHER -> h

MaxPending == 1

\* The call returned a promise.
IsPromise(out) == out.kind = "return" /\ out.val.t = "promise"

\* A call whose promise is pending: the promise the wrapper returned, and the
\* registry as it was when the call was made.
Dispatched(st, token, m, args) ==
    [token |-> token, m |-> m, args |-> args, seen |-> st,
     promise |-> Wrapper(st, token, m, args).val]

\* Variant: what a pending call gives is decided by the registry when it settles.
SettleValueLate(st, p) ==
    LET now == Wrapper(st, p.token, p.m, p.args)
    IN  IF IsPromise(now) THEN Fulfilment(now.val) ELSE now.val

\* What the promise of a pending call is fulfilled with: the timer set by the
\* function that was invoked fires and resolves it.
SettleValue(st, p) == Fulfilment(p.promise)

\* The promise of a pending call settles.
Settle(p) ==
    /\ p \in pending
    /\ pending' = pending \ {p}
    /\ last' = [kind |-> "settled", token |-> p.token, m |-> p.m, args |-> p.args,
                seen |-> p.seen, val |-> SettleValue(store, p)]
    /\ UNCHANGED <<store, proxies, envEnabled, envToken, hist>>
    /\ UNCHANGED avars

\* One control-plane request, from the gate to the response.
HttpRequest(hdr, req) ==
    LET p == Pipeline(store, proxies, envEnabled, envToken, hdr, req)
    IN  /\ Alive
        /\ store' = p.store
        /\ last' = [kind |-> "req", route |-> p.route, req |-> req, hdr |-> hdr,
                    gate |-> p.gate, cred |-> p.cred, resp |-> p.resp]
        /\ hist' = HistAfter(hist, p.resp)
        /\ UNCHANGED <<proxies, envEnabled, envToken>>
        /\ UNCHANGED avars
        /\ UNCHANGED pending

\* One call of a wrapped operation by the application.
Call(token, m, args) ==
    /\ Alive
    /\ token \in DOMAIN proxies
    /\ m \in proxies[token]
    /\ last' = [kind |-> "call", token |-> token, m |-> m, args |-> args,
                seen |-> RegGet(store, token),
                out |-> Wrapper(store, token, m, args)]
    /\ IsPromise(Wrapper(store, token, m, args)) => Cardinality(pending) < MaxPending
    /\ pending' = IF IsPromise(Wrapper(store, token, m, args))
                  THEN pending \cup {Dispatched(store, token, m, args)}
                  ELSE pending
    /\ UNCHANGED <<store, proxies, envEnabled, envToken, hist>>
    /\ UNCHANGED avars

\* The environment of the process is changed (as the tests do between cases).
SetEnv(enabled, secret) ==
    /\ Alive
    /\ <<enabled, secret>> # <<envEnabled, envToken>>
    /\ envEnabled' = enabled
    /\ envToken' = secret
    /\ last' = [kind |-> "env"]
    /\ UNCHANGED <<store, proxies, hist>>
    /\ UNCHANGED avars
    /\ UNCHANGED pending

Init == InitWith(EnvEnabledValues, EnvTokenValues)

Next ==
    \/ \E hdr \in Headers, req \in Requests : HttpRequest(hdr, req)
    \/ \E token \in DOMAIN proxies, m \in {"add", "sub"}, args \in CallArgs :
          Call(token, m, args)
    \/ \E e \in EnvEnabledValues, s \in EnvTokenValues : SetEnv(e, s)

Spec == Init /\ [][Next]_vars

\* The gate in all its cases, over a small registry.
InitGate == InitWith(GateEnvEnabledValues, GateEnvTokenValues)

NextGate ==
    \/ \E hdr \in GateHeaders, req \in GateRequests : HttpRequest(hdr, req)
    \/ \E token \in DOMAIN proxies, args \in CallArgs : Call(token, "add", args)
    \/ \E e \in GateEnvEnabledValues, s \in GateEnvTokenValues : SetEnv(e, s)

SpecGate == InitGate /\ [][NextGate]_vars

\* One call of an operation that got no wrapper at bootstrap: the implementation
\* runs as it is, and the registry is not read.
CallDirect(token, m, args) ==
    /\ Alive
    /\ m \in Callable(ShapeOf(token))
    /\ ~(token \in DOMAIN proxies /\ m \in proxies[token])
    /\ last' = [kind |-> "call", token |-> token, m |-> m, args |-> args,
                out |-> UseOriginal(token, m, args, <<>>)]
    /\ UNCHANGED <<store, proxies, envEnabled, envToken, hist>>
    /\ UNCHANGED avars
    /\ UNCHANGED pending

\* What discovery may yield: the component alone; or the engine's own registry,
\* the component, an alias of it, and the component once more.
Discoveries ==
    { <<Provider("Calc", TRUE, TRUE, FALSE)>>,
      <<Provider("TestOverridesRegistry", TRUE, TRUE, FALSE),
        Provider("Calc", TRUE, TRUE, FALSE),
        Provider("CalcAlias", TRUE, TRUE, TRUE),
        Provider("Calc", TRUE, TRUE, FALSE)>> }

\* Patches of an own method, of an inherited one and of a name that is no
\* operation of Calc; patches that call through the receiver or reach for the
\* process; a patch for a token that was never wrapped; resets.
BootRequests ==
    { Req("GET", <<"overrides">>, EmptyPayload),
      Req("POST", <<"override", "reset-all">>, EmptyPayload),
      Req("POST", <<"override", "Calc">>, ResetPayload),
      Req("POST", <<"override", "Ghost">>, MethodsPayload(<<FnSpec("add", BodyBoom)>>)),
      Req("POST", <<"override", "Calc">>,
          MethodsPayload(<<MethodSpec("add", "fn", BodyCallSub, AB)>>)),
      Req("POST", <<"override", "Calc">>, MethodsPayload(<<FnSpec("add", BodyEscapeGlobal)>>)),
      Req("POST", <<"override", "Calc">>, MethodsPayload(<<FnSpec("sub", BodyEscapeThis)>>)),
      Req("POST", <<"override", "Calc">>, MethodsPayload(<<FnSpec("sub", BodyReadProcess)>>)) }
    \cup { Req("POST", <<"override", "Calc">>, MethodsPayload(<<FnSpec(m, BodyBoom)>>)) :
              m \in {"add", "neg", "nop"} }

\* The component with all the operations it exposes, wrapped or not.
InitBoot ==
    /\ store = [t \in {} |-> NoRecord]
    /\ proxies \in { onApplicationBootstrap(d, [t \in {} |-> {}]) : d \in Discoveries }
    /\ envEnabled = Val(Str1)
    /\ envToken = Val(SecretK1)
    /\ last = [kind |-> "init"]
    /\ hist = [t \in Tokens |-> "none"]
    /\ adapter = NewAdapter(TRUE, TRUE, FALSE)
    /\ live = PristineLive
    /\ envMode = Unset
    /\ pending = {}

NextBoot ==
    \/ \E req \in BootRequests : HttpRequest(BearerHeader(1, SecretK1), req)
    \/ \E token \in DOMAIN proxies : \E m \in Callable(ShapeOf(token)), args \in CallArgs :
          Call(token, m, args)
    \/ \E token \in DOMAIN proxies : \E m \in Callable(ShapeOf(token)), args \in CallArgs :
          CallDirect(token, m, args)

SpecBoot == InitBoot /\ [][NextBoot]_vars

----------------------------------------------------------------------------
(* The test middleware in front of the adapter.                            *)

MwImpl == ImplObj(<<Prop("findAll", SrcMock)>>)
MwTypes == {Text("service"), Text("middleware")}
MwNames == {Text("UserService"), Text("Logger")}

MwApplyBodies ==
    { MwBody(Val(t), Val(n), MwImpl) : t \in MwTypes, n \in MwNames }
    \ { MwBody(Val(Text("middleware")), Val(Text("UserService")), MwImpl) }
MwInvalidBodies ==
    { NoBody,
      MwBody(Unset, Val(Text("UserService")), MwImpl),
      MwBody(Val(Text("service")), Unset, MwImpl),
      MwBody(Val(Text("service")), Val(<<>>), MwImpl),
      MwBody(Val(Text("service")), Val(Text("UserService")), ImplMissing),
      MwBody(Val(Text("service")), Val(Text("UserService")), ImplZero) }

MwRequests ==
    { MwReq("POST", OverridePath, b) : b \in MwApplyBodies \cup MwInvalidBodies }
    \cup { MwReq("DELETE", OverridePath \o <<Text("service"), Text("UserService")>>, NoBody),
           MwReq("DELETE", OverridePath \o <<Text("middleware"), Text("Logger")>>, NoBody),
           MwReq("DELETE", OverridePath \o <<Text("service"), <<>>>>, NoBody),
           MwReq("GET", OverridePath \o <<Text("service"), Text("UserService")>>, NoBody),
           MwReq("GET", OverridesPath, NoBody),
           MwReq("POST", OverridesPath, NoBody),
           MwReq("GET", HealthPath, NoBody),
           MwReq("POST", HealthPath, NoBody),
           MwReq("GET", <<Text(Prefix), Text("unknown")>>, NoBody),
           MwReq("GET", <<<<Prefix, "x">>>>, NoBody),
           MwReq("GET", <<Text("users")>>, NoBody),
           MwReq("POST", <<Text("users"), Text("override")>>, NoBody) }

ModeValues == {Unset, Val(StrTrue), Val(StrFalse)}

\* One request through the middleware, up to its answer or its call of next().
MwRequest(req) ==
    LET out == TestMiddleware(adapter, live, envMode, req)
    IN  /\ adapter' = out.adapter
        /\ live' = out.live
        /\ last' = [kind |-> "mw", req |-> req, next |-> out.next,
                    responses |-> out.responses, calls |-> out.calls]
        /\ UNCHANGED <<store, proxies, envEnabled, envToken, hist, envMode, pending>>

\* The application calls a method of one of its providers.
ProviderCall(p, m) ==
    /\ m \in DOMAIN live[p]
    /\ last' = [kind |-> "provider", provider |-> p, m |-> m, ran |-> live[p][m]]
    /\ UNCHANGED <<store, proxies, envEnabled, envToken, hist, adapter, live, envMode, pending>>

\* process.env.INTEGR8_MODE is set or deleted.
SetMode(v) ==
    /\ v # envMode
    /\ envMode' = v
    /\ last' = [kind |-> "env"]
    /\ UNCHANGED <<store, proxies, envEnabled, envToken, hist, adapter, live, pending>>

\* adapter.teardown()
Teardown ==
    /\ adapter.available
    /\ ~adapter.standIn
    /\ LET r == teardown(adapter, live)
       IN  /\ adapter' = r.adapter
           /\ live' = r.live
    /\ last' = [kind |-> "teardown", before |-> adapter]
    /\ UNCHANGED <<store, proxies, envEnabled, envToken, hist, envMode, pending>>

\* The application with the middleware mounted: with the module imported and the
\* references set, with the module imported and no references, with a stand-in
\* registered as the adapter, or without the module.
InitMw ==
    /\ store = [t \in {} |-> NoRecord]
    /\ proxies = BootProxies
    /\ envEnabled = Val(Str1)
    /\ envToken = Val(SecretK1)
    /\ last = [kind |-> "init"]
    /\ hist = [t \in Tokens |-> "none"]
    /\ adapter \in { NewAdapter(TRUE, TRUE, FALSE), NewAdapter(TRUE, FALSE, FALSE),
                     NewAdapter(TRUE, FALSE, TRUE), NewAdapter(FALSE, FALSE, FALSE) }
    /\ live = PristineLive
    /\ envMode \in ModeValues
    /\ pending = {}

NextMw ==
    \/ \E req \in MwRequests : MwRequest(req)
    \/ \E p \in Providers, m \in {"findAll", "findOne"} : ProviderCall(p, m)
    \/ \E v \in ModeValues : SetMode(v)
    \/ Teardown

SpecMw == InitMw /\ [][NextMw]_vars

----------------------------------------------------------------------------
(* The adapter called directly, as a test does.                            *)

MaxOverrides == 2

NameWithColon == <<"a", Colon, "b">>
EmptyImpl == ImplObj(<<>>)

\* The calls of applyOverride a run makes: type, name, implementation.
Apply(type, name, implementation) ==
    [type |-> type, name |-> name, implementation |-> implementation]
AdapterApplies ==
    { Apply(Text("service"), Text("UserService"), MwImpl),
      Apply(Text("service"), Text("UserService"), EmptyImpl),
      Apply(Text("provider"), Text("UserService"), MwImpl),
      Apply(Text("repository"), Text("UserService"), MwImpl),
      Apply(Text("service"), Text("UserService"), ImplMissing),
      Apply(Text("service"), Text("Nowhere"), MwImpl),
      Apply(Text("middleware"), Text("Logger"), MwImpl),
      Apply(Text("widget"), Text("Logger"), MwImpl),
      Apply(Text("widget"), Text("Logger"), ImplZero),
      Apply(Text("widget"), NameWithColon, MwImpl) }
AdapterKeys == { [type |-> a.type, name |-> a.name] : a \in AdapterApplies }

\* await adapter.applyOverride(type, name, implementation). before: the listing
\* when the call was made.
ApplyOverride(a) ==
    /\ adapter.available
    /\ ~adapter.standIn
    /\ Len(adapter.overrides) < MaxOverrides
    /\ LET r == applyOverride(adapter, live, a.type, a.name, a.implementation)
       IN  /\ adapter' = r.adapter
           /\ live' = r.live
           /\ last' = [kind |-> "apply", type |-> a.type, name |-> a.name,
                       implementation |-> a.implementation, ok |-> r.ok,
                       error |-> r.error, before |-> adapter]
    /\ UNCHANGED <<store, proxies, envEnabled, envToken, hist, envMode, pending>>

\* await adapter.removeOverride(type, name)
RemoveOverride(k) ==
    /\ adapter.available
    /\ ~adapter.standIn
    /\ LET r == removeOverride(adapter, live, k.type, k.name)
       IN  /\ adapter' = r.adapter
           /\ live' = r.live
           /\ last' = [kind |-> "remove", type |-> k.type, name |-> k.name,
                       ok |-> r.ok, before |-> adapter]
    /\ UNCHANGED <<store, proxies, envEnabled, envToken, hist, envMode, pending>>

\* adapter.setNestJSReferences(moduleRef, app)
SetNestJSReferences ==
    /\ ~adapter.moduleRef
    /\ adapter' = [adapter EXCEPT !.moduleRef = TRUE, !.app = TRUE]
    /\ last' = [kind |-> "refs"]
    /\ UNCHANGED <<store, proxies, envEnabled, envToken, hist, live, envMode, pending>>

\* new NestJSAdapter()
InitAdapter ==
    /\ store = [t \in {} |-> NoRecord]
    /\ proxies = BootProxies
    /\ envEnabled = Val(Str1)
    /\ envToken = Val(SecretK1)
    /\ last = [kind |-> "init"]
    /\ hist = [t \in Tokens |-> "none"]
    /\ adapter = NewAdapter(TRUE, FALSE, FALSE)
    /\ live = PristineLive
    /\ envMode = Unset
    /\ pending = {}

NextAdapter ==
    \/ \E a \in AdapterApplies : ApplyOverride(a)
    \/ \E k \in AdapterKeys : RemoveOverride(k)
    \/ SetNestJSReferences
    \/ Teardown

SpecAdapter == InitAdapter /\ [][NextAdapter]_vars

----------------------------------------------------------------------------
(* Bootstrap, one discovered provider at a time.                           *)

MaxDiscovered == 3

\* The providers discovery may yield: the component, a second provider holding the
\* same instance, an alias, a provider without instance, one of the engine's own.
Discoverable ==
    { Provider("Calc", TRUE, TRUE, FALSE),
      Provider("CalcValue", TRUE, TRUE, FALSE),
      Provider("CalcAlias", TRUE, TRUE, TRUE),
      Provider("Lazy", FALSE, TRUE, FALSE),
      Provider("ModuleRef", TRUE, TRUE, FALSE) }
DiscoveryLists == UNION { [1..n -> Discoverable] : n \in 0..MaxDiscovered }

\* One turn of the loop of onApplicationBootstrap: the next provider is skipped or
\* its instance is patched and its token recorded.
BootstrapStep ==
    /\ last.kind \in {"discovered", "wrap", "skip"}
    /\ last.rest # <<>>
    /\ LET w == Head(last.rest)
           px == onApplicationBootstrap(<<w>>, proxies)
       IN  /\ proxies' = px
           /\ last' = IF px = proxies
                      THEN [kind |-> "skip", token |-> w.token, rest |-> Tail(last.rest)]
                      ELSE [kind |-> "wrap", token |-> w.token,
                            bound |-> BoundTargets(proxies, w.token),
                            rest |-> Tail(last.rest)]
    /\ UNCHANGED <<store, envEnabled, envToken, hist, adapter, live, envMode, pending>>

InitWrap ==
    /\ store = [t \in {} |-> NoRecord]
    /\ proxies = [t \in {} |-> {}]
    /\ envEnabled = Val(Str1)
    /\ envToken = Val(SecretK1)
    /\ last \in { [kind |-> "discovered", rest |-> d] : d \in DiscoveryLists }
    /\ hist = [t \in Tokens |-> "none"]
    /\ adapter = NewAdapter(TRUE, TRUE, FALSE)
    /\ live = PristineLive
    /\ envMode = Unset
    /\ pending = {}

NextWrap == BootstrapStep

SpecWrap == InitWrap /\ [][NextWrap]_vars

----------------------------------------------------------------------------
(* Calls between control-plane requests: overrides that return promises,   *)
(* a factory whose product keeps a count, reset-all with a body.           *)

CallsRequests ==
    { Req("POST", <<"override", "Calc">>, MethodsPayload(<<FnSpec("add", b)>>)) :
         b \in {BodyLater1, BodyLater2} }
    \cup { Req("POST", <<"override", "Calc">>, b) :
              b \in {FactoryPayload(BodyProdCounter), FactoryPayload(BodyProdX), ResetPayload} }
    \cup { Req("POST", <<"override", "reset-all">>, b) :
              b \in {EmptyPayload, UndefinedBody, FactoryPayload(BodyProdX),
                     MethodsPayload(<<FnSpec("add", BodyLater1)>>)} }
    \cup { Req("GET", <<"overrides">>, EmptyPayload) }

NextCalls ==
    \/ \E req \in CallsRequests : HttpRequest(BearerHeader(1, SecretK1), req)
    \/ \E token \in DOMAIN proxies : \E m \in proxies[token], args \in CallArgs :
          Call(token, m, args)
    \/ \E p \in pending : Settle(p)

SpecCalls == InitWith({Val(Str1)}, {Val(SecretK1)}) /\ [][NextCalls]_vars

----------------------------------------------------------------------------
(* The claims.                                                             *)

\* What the original implementation of the last call gives for its arguments.
LastOriginal == OrigRun(last.token, last.m, last.args)
LastEnd == [kind |-> last.out.kind, val |-> last.out.val]
RanUnits(out) == {out.ran[i].unit : i \in 1..Len(out.ran)}

\* C1: once a reset of T ({reset:true}) or a reset-all has completed, and until the
\* next apply, every call of a wrapped operation of T runs the original
\* implementation, and nothing else, with the caller's arguments, and list() has
\* no entry for T.
C1_FallThroughAfterReset ==
    \A T \in Tokens :
        hist[T] \in {"reset", "cleared"} =>
            /\ T \notin DOMAIN RegList(store)
            /\ (last.kind = "call" /\ last.token = T) =>
                  /\ last.out.target = "original"
                  /\ last.out.ran = <<Ran("original", last.m)>>
                  /\ last.out.args = last.args
                  /\ LastEnd = LastOriginal

\* Calc.add(1, 2) gives 3 again after overrides were applied to Calc and reset.
C1_Witness ==
    /\ hist["Calc"] = "cleared"
    /\ last.kind = "call" /\ last.token = "Calc" /\ last.m = "add"
    /\ last.args = <<1, 2>>
    /\ last.out.val = NumV(3)

\* C2: when the record of T holds a factory whose product exposes m and also a
\* method patch for m, a call of m is answered by the product's m and the method
\* patch is not executed.
C2_FactoryPrecedence ==
    last.kind = "call" =>
        LET T == last.token
            made == Exec(store[T].factory, UndefV, <<>>)
        IN  (/\ Has(store, T)
             /\ store[T].factory # NoFn
             /\ store[T].hasMethods /\ MapHas(store[T].methods, last.m)
             /\ made.kind = "return" /\ Exposes(made.val, last.m))
            => /\ last.out.target = "factory"
               /\ "patch" \notin RanUnits(last.out)
               /\ "original" \notin RanUnits(last.out)
               /\ last.out.args = last.args
               /\ LastEnd = CallObjMethod(made.val, last.m, last.args)

\* add is patched to multiply and a factory gives { add: () => 'X' }: add(1, 2) is 'X'.
C2_Witness ==
    /\ last.kind = "call" /\ last.token = "Calc" /\ last.m = "add"
    /\ Has(store, "Calc")
    /\ store["Calc"].factory = Fn(BodyProdX, <<>>)
    /\ MapHas(store["Calc"].methods, "add")
    /\ MapFn(store["Calc"].methods, "add") = Fn(BodyMul, AB)
    /\ last.out.val = StrV("X")

\* C3: when the registry holds no record for T, a call of a wrapped operation of T
\* returns or throws exactly what the implementation captured at wrap time does
\* for the component instance and the caller's arguments.
C3_Transparency ==
    (last.kind = "call" /\ ~Has(store, last.token)) =>
        /\ LastEnd = LastOriginal
        /\ last.out.target = "original"
        /\ last.out.this = InstanceOf(last.token)
        /\ last.out.args = last.args

\* Calc.sub(1, 2) is -1 while nothing was ever applied to Calc.
C3_Witness ==
    /\ last.kind = "call" /\ last.token = "Calc" /\ last.m = "sub"
    /\ last.args = <<1, 2>>
    /\ ~Has(store, "Calc") /\ hist["Calc"] = "none"
    /\ last.out.val = NumV(-1)

\* C4: an apply request with several method entries, one of whose bodies does not
\* compile (syntax error, empty or non-string body), fails with status 500 and
\* leaves the registry as it was: no entry of the request is installed.
C4_CompileAtomicity ==
    [][ LET entries == last'.req.body.methods
        IN  (/\ last'.kind = "req" /\ last'.route = "set" /\ last'.gate = "pass"
             /\ last'.req.body.keys = {"methods"}
             /\ Len(entries) >= 2
             /\ \A i \in 1..Len(entries) : entries[i].type = "fn"
             /\ \E i \in 1..Len(entries) :
                   ~IsStringValue(entries[i].body)
                   \/ entries[i].body \in {BodyEmpty, BodyBadSyntax})
            => /\ last'.resp.status = 500
               /\ store' = store ]_vars

\* The first entry compiles and the second has a syntax error: status 500, and
\* Calc has no record.
C4_Witness ==
    /\ last.kind = "req" /\ last.route = "set" /\ last.gate = "pass"
    /\ last.req.body.keys = {"methods"}
    /\ Len(last.req.body.methods) = 2
    /\ last.req.body.methods[1].body = BodyMul
    /\ last.req.body.methods[2].body = BodyBadSyntax
    /\ last.resp.status = 500
    /\ ~Has(store, "Calc")

\* C5: a request rejected by the gate (disabled, unauthorized: 401) or by the
\* validation of its payload (400) leaves the whole registry as it was.
C5_RejectedRequestLeavesRegistry ==
    [][ (last'.kind = "req" /\ last'.resp.status \in {400, 401}) => store' = store ]_vars

\* An unauthorized reset-all is answered 401 and the records are still there.
C5_Witness ==
    /\ last.kind = "req" /\ last.route = "resetAll"
    /\ last.gate = "unauthorized" /\ last.resp.status = 401
    /\ DOMAIN store = {"Calc", "Ghost"}

\* C6: when the override that is active for m throws (the factory itself, the
\* product's m, or the method patch), the call throws that error: the original
\* implementation is not run and no result is put in its place.
C6_OverrideErrorsPropagate ==
    last.kind = "call" =>
        LET T == last.token
            found == Has(store, T)
            made == Exec(store[T].factory, UndefV, <<>>)
            byFactory == found /\ store[T].factory # NoFn
            byProduct == byFactory /\ made.kind = "return" /\ Exposes(made.val, last.m)
            byPatch == /\ found /\ ~byProduct
                       /\ (byFactory => made.kind = "return")
                       /\ store[T].hasMethods /\ MapHas(store[T].methods, last.m)
            thrown == IF byFactory /\ made.kind = "throw" THEN made
                      ELSE IF byProduct THEN CallObjMethod(made.val, last.m, last.args)
                      ELSE IF byPatch
                      THEN Exec(MapFn(store[T].methods, last.m), InstanceOf(T), last.args)
                      ELSE Returns(UndefV)
        IN  thrown.kind = "throw" =>
               /\ LastEnd = thrown
               /\ "original" \notin RanUnits(last.out)

\* The factory of Calc throws while add is also patched: the call throws 'boom'.
C6_Witness ==
    /\ last.kind = "call" /\ last.token = "Calc" /\ last.m = "add"
    /\ Has(store, "Calc") /\ store["Calc"].factory = Fn(BodyBoom, <<>>)
    /\ MapHas(store["Calc"].methods, "add")
    /\ last.out.target = "factory"
    /\ last.out.kind = "throw" /\ last.out.val = ErrV("boom")

\* The flag is on exactly when the variable is the text 1.
FlagOn == envEnabled = Val(Str1)
SecretConfigured == envToken.present /\ envToken.text # <<>>

\* C7: the gate lets a request proceed exactly when, as the request is evaluated,
\* the flag is on, a non-empty secret is configured and the credential taken from
\* the header is that secret. With the flag off the request is rejected as
\* disabled whatever it carries; with the flag on and no matching credential it
\* is rejected as unauthorized.
C7_GateDecision ==
    (last.kind = "req" /\ last.route # "none") =>
        /\ last.gate = "pass" <=>
              (FlagOn /\ SecretConfigured /\ last.cred = envToken.text)
        /\ ~FlagOn =>
              (last.gate = "disabled" /\ last.resp.status = 401
               /\ last.resp.error = "Overrides disabled")
        /\ (FlagOn /\ last.gate # "pass") =>
              (last.gate = "unauthorized" /\ last.resp.status = 401
               /\ last.resp.error = "Invalid token")
        /\ last.gate = "pass" => last.hdr.present /\ last.resp.status \in {200, 201, 400, 500}

\* The flag is off and the request carries the configured secret: it is rejected
\* as disabled.
C7_Witness ==
    /\ last.kind = "req" /\ last.route = "list"
    /\ ~FlagOn /\ envToken = Val(SecretK1)
    /\ last.hdr = BearerHeader(1, SecretK1)
    /\ last.gate = "disabled"

\* A header of the form 'Bearer <credential>': the scheme, whitespace, a credential.
WellFormedBearer(hdr) ==
    /\ hdr.present
    /\ Len(hdr.text) >= 8
    /\ LowerStr(SubSeq(hdr.text, 1, 6)) = LowerBearerWord
    /\ IsSpaceChar(hdr.text[7])
    /\ DropSpaces(SubSeq(hdr.text, 7, Len(hdr.text))) # <<>>

\* C8: a request whose Authorization header is not of the form
\* 'Bearer <credential>' is denied, also when the header holds the configured
\* secret; and every request is denied when no secret is configured.
C8_MalformedHeaderDenied ==
    (/\ last.kind = "req" /\ last.route # "none"
     /\ (~WellFormedBearer(last.hdr) \/ ~SecretConfigured))
    => last.gate # "pass"

\* C9: a reader sees only whole records. Every record in the store is filled (it
\* has a methods map or a factory); a request with a methods payload either leaves
\* the registry as it was or leaves all of its entries installed; and a call reads
\* the record as the last completed request left it, and changes nothing.
C9_NoHalfWrittenRecord ==
    [][ /\ \A T \in DOMAIN store' : store'[T].hasMethods \/ store'[T].factory # NoFn
        /\ (/\ last'.kind = "req" /\ last'.route = "set" /\ last'.gate = "pass"
            /\ "methods" \in last'.req.body.keys
            /\ ~("reset" \in last'.req.body.keys /\ last'.req.body.reset))
           => LET T == last'.req.path[2]
                  entries == last'.req.body.methods
              IN  \/ store' = store
                  \/ /\ Has(store', T) /\ store'[T].hasMethods
                     /\ \A i \in 1..Len(entries) :
                           /\ MapHas(store'[T].methods, entries[i].name)
                           /\ MapFn(store'[T].methods, entries[i].name)
                                 = Fn(entries[i].body, entries[i].args)
        /\ last'.kind = "call" =>
              /\ last'.seen = RegGet(store, last'.token)
              /\ store' = store ]_vars

\* A call of sub reads a record that holds both entries, add and sub, of one request.
C9_Witness ==
    /\ last.kind = "call" /\ last.token = "Calc" /\ last.m = "sub"
    /\ last.seen.found
    /\ last.seen.rec.methods =
          <<Entry("add", Fn(BodyMul, AB)), Entry("sub", Fn(BodyBoom, <<>>))>>

\* C10: every invocation of a compiled function completes or is abandoned with
\* ExecutionTimeoutError when its time budget (5000 ms) is exceeded: no
\* intercepted call hangs its caller.
C10_TimeoutBoundsExecution ==
    last.kind = "call" => last.out.kind \in {"return", "throw"}

\* C11: an apply request whose method entry is a body and a list of parameter
\* names under the key params, and nothing else, is accepted (201), and the
\* function it installs binds the caller's arguments to those names in order:
\* with the body 'return a*b;' and params [a, b], add(x, y) gives x*y.
C11_ParamsPayloadApplies ==
    (/\ last.kind = "req" /\ last.route = "set" /\ last.gate = "pass"
     /\ last.req.body = ParamsMulPayload)
    => LET T == last.req.path[2]
       IN  /\ last.resp.status = 201
           /\ Has(store, T) /\ store[T].hasMethods /\ MapHas(store[T].methods, "add")
           /\ \A args \in CallArgs :
                 Exec(MapFn(store[T].methods, "add"), InstanceOf(T), args)
                    = Returns(NumV(args[1] * args[2]))

\* C12: while the record of T holds a factory, no call of any wrapped operation of
\* T executes an entry of T's methods, also when the factory's product does not
\* expose the operation.
C12_FactoryShadowsAllPatches ==
    (/\ last.kind = "call"
     /\ Has(store, last.token)
     /\ store[last.token].factory # NoFn)
    => "patch" \notin RanUnits(last.out)

\* C13: after bootstrap every operation a discovered component exposes (a method
\* of its own class, an inherited one, a function-valued property of the
\* instance) consults the registry: once a method patch for m is installed (and
\* no factory), the next call of m executes the patch.
C13_EveryOperationConsultsRegistry ==
    LET T == last.token
    IN  (/\ last.kind = "call"
         /\ T \in DOMAIN proxies
         /\ last.m \in Callable(ShapeOf(T))
         /\ Has(store, T) /\ store[T].factory = NoFn
         /\ store[T].hasMethods /\ MapHas(store[T].methods, last.m))
        => /\ last.out.target = "patch"
           /\ LastEnd = Exec(MapFn(store[T].methods, last.m), InstanceOf(T), last.args)

\* A request of the last step that passed the gate and was handled by set.
SetHandled(l) == l.kind = "req" /\ l.route = "set" /\ l.gate = "pass"
Applied(l, kind) == SetHandled(l) /\ l.resp.status = 201 /\ l.resp.data.kind = kind

\* The methods map of T in st, empty when T has no record or no map.
MethodsOf(st, T) == IF Has(st, T) /\ st[T].hasMethods THEN st[T].methods ELSE <<>>
FactoryOf(st, T) == IF Has(st, T) THEN st[T].factory ELSE NoFn

\* Every identity but T has the same record, or none, before and after.
OthersUnchanged(before, after, T) ==
    /\ DOMAIN after \ {T} = DOMAIN before \ {T}
    /\ \A U \in DOMAIN before \ {T} : after[U] = before[U]

\* C14: a completed apply of a methods payload P to T merges: afterwards every
\* name of P maps to P's function, every other name keeps the function it had,
\* T's factory is as before, T has a record, and the record of every other
\* identity is as before.
C14_SetMethodsMerges ==
    [][ Applied(last', "methods") =>
          LET T == last'.req.path[2]
              P == last'.req.body.methods
              named == {P[i].name : i \in 1..Len(P)}
              old == MethodsOf(store, T)
              new == MethodsOf(store', T)
          IN  /\ Has(store', T) /\ store'[T].hasMethods
              /\ KeySet(new) = KeySet(old) \cup named
              /\ \A i \in 1..Len(P) : MapFn(new, P[i].name) = Fn(P[i].body, P[i].args)
              /\ \A n \in KeySet(old) \ named : MapFn(new, n) = MapFn(old, n)
              /\ FactoryOf(store', T) = FactoryOf(store, T)
              /\ OthersUnchanged(store, store', T) ]_vars

\* sub is patched on a record that already held a patch of add and a factory,
\* while Ghost has a record of its own: add, the factory and Ghost are still there.
C14_Witness ==
    /\ Applied(last, "methods")
    /\ last.req.path[2] = "Calc"
    /\ last.req.body = MethodsPayload(<<FnSpec("sub", BodyLoop)>>)
    /\ Has(store, "Calc") /\ Has(store, "Ghost")
    /\ store["Calc"].methods =
          <<Entry("add", Fn(BodyBoom, <<>>)), Entry("sub", Fn(BodyLoop, <<>>))>>
    /\ store["Calc"].factory = Fn(BodyProdX, <<>>)

\* C15: a completed apply of a factory payload to T installs that factory in place
\* of any previous one, creates the record if there was none, and leaves T's
\* methods map and the record of every other identity as they were: every method
\* patch listed for T before is listed after.
C15_SetFactoryKeepsMethods ==
    [][ Applied(last', "factory") =>
          LET T == last'.req.path[2]
              f == last'.req.body.factory
          IN  /\ Has(store', T)
              /\ store'[T].factory = Fn(f.body, f.args)
              /\ store'[T].factory # NoFn
              /\ MethodsOf(store', T) = MethodsOf(store, T)
              /\ Has(store, T) => RegList(store')[T].methods = RegList(store)[T].methods
              /\ OthersUnchanged(store, store', T) ]_vars

\* A factory is installed on a record that holds patches of add and sub: both
\* patches are still in the record.
C15_Witness ==
    /\ Applied(last, "factory")
    /\ last.req.path[2] = "Calc"
    /\ last.req.body = FactoryPayload(BodyProdBoom)
    /\ Has(store, "Calc")
    /\ store["Calc"].factory = Fn(BodyProdBoom, <<>>)
    /\ store["Calc"].methods =
          <<Entry("add", Fn(BodyMul, AB)), Entry("sub", Fn(BodyBoom, <<>>))>>

\* C16: a reset of T ({reset:true}) always succeeds, for a wrapped identity and
\* for one never wrapped; it leaves T without a record and every other record as
\* it was; on an identity with no record it leaves the registry unchanged, so a
\* second reset after a first changes nothing.
C16_ResetIdempotent ==
    [][ (/\ SetHandled(last')
         /\ "reset" \in last'.req.body.keys /\ last'.req.body.reset)
        => LET T == last'.req.path[2]
           IN  /\ Applied(last', "reset")
               /\ ~Has(store', T)
               /\ OthersUnchanged(store, store', T)
               /\ ~Has(store, T) => store' = store
               /\ (Applied(last, "reset") /\ last.req.path[2] = T) => store' = store
        ]_vars

\* Ghost, never wrapped and never given a record, is reset: the request succeeds
\* and the record of Calc is still there.
C16_Witness ==
    /\ Applied(last, "reset")
    /\ last.req.path[2] = "Ghost"
    /\ hist["Ghost"] = "reset"
    /\ Has(store, "Calc") /\ ~Has(store, "Ghost")

\* C17: a reset-all leaves no record: get(T) is absent for every T and list() is
\* empty. From then on the registry stays empty until an apply completes, and
\* while it is empty every call of a wrapped operation runs the original
\* implementation and nothing else.
C17_ResetAllClearsEverything ==
    [][ /\ (last'.kind = "req" /\ last'.route = "resetAll" /\ last'.gate = "pass")
           => /\ last'.resp.status = 201
              /\ \A T \in Tokens : ~RegGet(store', T).found
              /\ DOMAIN RegList(store') = {}
        /\ (DOMAIN store = {} /\ DOMAIN store' # {})
           => (Applied(last', "methods") \/ Applied(last', "factory"))
        /\ (DOMAIN store = {} /\ last'.kind = "call")
           => /\ last'.out.target = "original"
              /\ last'.out.ran = <<Ran("original", last'.m)>>
              /\ last'.out.kind = OrigRun(last'.token, last'.m, last'.args).kind
              /\ last'.out.val = OrigRun(last'.token, last'.m, last'.args).val
        ]_vars

\* A reset-all completes after overrides were applied to Calc and to Ghost: the
\* registry is empty.
C17_Witness ==
    /\ last.kind = "req" /\ last.route = "resetAll" /\ last.resp.status = 201
    /\ hist["Calc"] = "cleared" /\ hist["Ghost"] = "cleared"
    /\ DOMAIN store = {}
    /\ DOMAIN RegList(store) = {}

\* The names an entry of the listing may hold.
PatchNames == {"add", "sub"}

\* C18: list() has an entry for T exactly when get(T) finds a record; the entry
\* holds the names patched for T, each once, and hasFactory, true exactly when
\* the record has a factory; it holds names and the flag and nothing else. The
\* list request answers with that listing.
C18_ListMirrorsRegistry ==
    LET L == RegList(store)
    IN  /\ \A T \in Tokens : T \in DOMAIN L <=> RegGet(store, T).found
        /\ DOMAIN L \subseteq Tokens
        /\ \A T \in DOMAIN L :
              /\ DOMAIN L[T] = {"methods", "hasFactory"}
              /\ \A i \in 1..Len(L[T].methods) : L[T].methods[i] \in PatchNames
              /\ {L[T].methods[i] : i \in 1..Len(L[T].methods)} = KeySet(MethodsOf(store, T))
              /\ Len(L[T].methods) = Cardinality(KeySet(MethodsOf(store, T)))
              /\ L[T].hasFactory \in BOOLEAN
              /\ L[T].hasFactory <=> FactoryOf(store, T) # NoFn
        /\ (last.kind = "req" /\ last.route = "list" /\ last.resp.status = 200)
              => last.resp.data.overrides = L

\* The listing reports Calc with the names add and sub and a factory, and Ghost
\* with a factory and no names.
C18_Witness ==
    /\ last.kind = "req" /\ last.route = "list" /\ last.resp.status = 200
    /\ DOMAIN last.resp.data.overrides = {"Calc", "Ghost"}
    /\ last.resp.data.overrides["Calc"] = [methods |-> <<"add", "sub">>, hasFactory |-> TRUE]
    /\ last.resp.data.overrides["Ghost"] = [methods |-> <<>>, hasFactory |-> TRUE]
    /\ ~store["Ghost"].hasMethods

\* C19: an identity with neither a method patch nor a factory is as an identity
\* without a record: list() has no entry for it and every call of its wrapped
\* operations runs the original implementation.
C19_EmptyRecordIsAbsent ==
    \A T \in Tokens :
        (MethodsOf(store, T) = <<>> /\ FactoryOf(store, T) = NoFn)
        => /\ T \notin DOMAIN RegList(store)
           /\ (last.kind = "call" /\ last.token = T) => last.out.target = "original"

\* A body that is none of the shapes: not an object; or without reset:true and
\* with no methods and no factory, with null in their place, or with a method
\* entry whose type is not supported.
Malformed(body) ==
    \/ ~body.object
    \/ /\ ~("reset" \in body.keys /\ body.reset)
       /\ \/ body.keys \cap {"methods", "factory"} = {}
          \/ /\ "methods" \in body.keys
             /\ \/ "methods" \in body.nulls
                \/ \E i \in 1..Len(body.methods) :
                      body.methods[i].type \notin {"fn", TypeMissing}
          \/ /\ "methods" \notin body.keys
             /\ "factory" \in body.keys /\ "factory" \in body.nulls

\* C20: an apply request whose payload is none of the three shapes is answered
\* 400 (InvalidPayload), never with success and never with 500.
C20_MalformedPayloadIs400 ==
    (SetHandled(last) /\ Malformed(last.req.body)) => last.resp.status = 400

\* A methods payload that the handler accepts: every entry has the type fn and a
\* body that compiles.
AcceptedMethods(body) ==
    /\ body.object /\ body.keys = {"methods"} /\ "methods" \notin body.nulls
    /\ \A i \in 1..Len(body.methods) :
          /\ body.methods[i].type = "fn"
          /\ compileFunctionInSandbox(body.methods[i].body, body.methods[i].args,
                                      DefaultTimeoutMs).ok

\* C21: an apply request for an identity that was never wrapped, or of a method
\* patch whose name is no operation of the wrapped component, is accepted: it is
\* answered 201, the record is in the registry under that string and in list()
\* with the name, and every wrapped operation of every component behaves as before.
C21_UnknownIdentityAccepted ==
    [][ LET T == last'.req.path[2]
            P == last'.req.body.methods
        IN  (/\ SetHandled(last') /\ AcceptedMethods(last'.req.body)
             /\ \A i \in 1..Len(P) :
                   T \notin DOMAIN proxies \/ P[i].name \notin Callable(ShapeOf(T)))
            => /\ Applied(last', "methods")
               /\ Has(store', T)
               /\ T \in DOMAIN RegList(store')
               /\ \A i \in 1..Len(P) :
                     \E k \in 1..Len(RegList(store')[T].methods) :
                        RegList(store')[T].methods[k] = P[i].name
               /\ proxies' = proxies
               /\ \A U \in DOMAIN proxies : \A m \in proxies[U], args \in CallArgs :
                     Wrapper(store', U, m, args) = Wrapper(store, U, m, args) ]_vars

\* A patch is applied to Ghost, which was never wrapped, while Calc holds a patch
\* of nop, which is none of its operations: both are in the registry.
C21_Witness ==
    /\ Applied(last, "methods")
    /\ last.req.path[2] = "Ghost"
    /\ "Ghost" \notin DOMAIN proxies
    /\ Has(store, "Ghost") /\ "Ghost" \in DOMAIN RegList(store)
    /\ Has(store, "Calc") /\ MapHas(store["Calc"].methods, "nop")

\* C22: when the method patch of m answers a call, the compiled function runs
\* with the component instance as its receiver and with the caller's arguments
\* in their order; a patch that calls through its receiver an operation that has
\* no override reaches the original implementation of that operation.
C22_PatchReceiverAndArgs ==
    LET T == last.token
    IN  (/\ last.kind = "call"
         /\ T \in DOMAIN proxies /\ last.m \in proxies[T]
         /\ last.out.target = "patch")
        => /\ last.out.this = InstanceOf(T)
           /\ last.out.args = last.args
           /\ (/\ MapFn(store[T].methods, last.m).body = BodyCallSub
               /\ ~MapHas(store[T].methods, "sub")
               /\ store[T].factory = NoFn)
              => /\ LastEnd = OrigRun(T, "sub", last.args)
                 /\ last.out.ran = <<Ran("patch", BodyCallSub), Ran("original", "sub")>>

\* add is patched with 'return this.sub(a, b);' and sub has no override:
\* add(1, 2) gives -1.
C22_Witness ==
    /\ last.kind = "call" /\ last.token = "Calc" /\ last.m = "add"
    /\ last.args = <<1, 2>>
    /\ Has(store, "Calc")
    /\ MapHas(store["Calc"].methods, "add")
    /\ MapFn(store["Calc"].methods, "add") = Fn(BodyCallSub, AB)
    /\ ~MapHas(store["Calc"].methods, "sub")
    /\ last.out.val = NumV(-1)

\* C23: whatever requests have completed, the wrappers are the ones installed at
\* bootstrap, and a call of a wrapped operation m of T that falls through runs
\* the implementation of m bound at wrap time, with the instance and the caller's
\* arguments: no request changes that target and no override stands in for it.
C23_FallThroughTargetFixed ==
    [][ /\ proxies' = proxies
        /\ LET T == last'.token
               m == last'.m
           IN  (/\ last'.kind = "call"
                /\ T \in DOMAIN proxies /\ m \in proxies[T]
                /\ ~(Has(store, T) /\ store[T].factory # NoFn)
                /\ ~MapHas(MethodsOf(store, T), m))
               => /\ last'.out.target = "original"
                  /\ last'.out.ran = <<Ran("original", m)>>
                  /\ last'.out.this = InstanceOf(T)
                  /\ last'.out.kind = OrigRun(T, m, last'.args).kind
                  /\ last'.out.val = OrigRun(T, m, last'.args).val ]_vars

\* After overrides of Calc were applied and cleared and add was patched again,
\* sub(2, 1) still gives 1.
C23_Witness ==
    /\ last.kind = "call" /\ last.token = "Calc" /\ last.m = "sub"
    /\ last.args = <<2, 1>>
    /\ hist["Calc"] = "applied" /\ hist["Ghost"] = "cleared"
    /\ Has(store, "Calc") /\ MapHas(store["Calc"].methods, "add")
    /\ last.out.target = "original" /\ last.out.val = NumV(1)

\* C24: the health operation answers with the enablement of the engine as it is
\* when the request is made: enabled is true when the flag is on and false when
\* it is off.
C24_HealthReportsEnablement ==
    (last.kind = "req" /\ last.route = "health")
    => /\ last.resp.status = 200
       /\ last.resp.data.kind = "health"
       /\ last.resp.data.overridesEnabled <=> FlagOn

\* C25: no execution of a compiled function, whatever its body, gets hold of the
\* process of the host: no call is answered with it.
C25_NoAmbientCapability ==
    last.kind = "call" => last.out.val # HostProcess

\* A request the test middleware has handled, and the one response it wrote.
MwHandled == last.kind = "mw" /\ ~last.next /\ Len(last.responses) = 1
MwAnswer == last.responses[1]
\* The four routes of the test middleware.
KnownRoute(req) ==
    \/ req.method = "GET" /\ req.path = HealthPath
    \/ req.method = "POST" /\ req.path = OverridePath
    \/ req.method = "DELETE" /\ MatchesRemove(req.path)
    \/ req.method = "GET" /\ req.path = OverridesPath
OneOutcome ==
    last.kind = "mw" =>
        IF StartsWithPrefix(last.req.path)
        THEN /\ ~last.next
             /\ Len(last.responses) = 1
             /\ MwAnswer.status \in {200, 400, 404, 500, 503}
        ELSE last.next /\ last.responses = <<>>

\* C26 (as amended): every request has exactly one outcome: outside the prefix
\* next() is called and nothing is written; inside it next() is never called and
\* exactly one response is written, which is 404 exactly when no route matches the
\* path and method and the adapter is available, and 503 when no route matches and
\* the adapter is not available.
C26_OneOutcome ==
    /\ OneOutcome
    /\ (last.kind = "mw" /\ StartsWithPrefix(last.req.path)) =>
          /\ MwAnswer.status = 404 <=> (~KnownRoute(last.req) /\ adapter.available)
          /\ (~KnownRoute(last.req) /\ ~adapter.available) => MwAnswer.status = 503
C26_Witness ==
    /\ MwHandled
    /\ last.req.path = HealthPath
    /\ last.req.method = "POST"
    /\ MwAnswer.status = 404
\* C26 (as stated): ... with 404 for an unknown path or a known path used with the
\* wrong method, whatever the state of the adapter.
C26_Original ==
    /\ OneOutcome
    /\ (last.kind = "mw" /\ StartsWithPrefix(last.req.path) /\ ~KnownRoute(last.req)) =>
          MwAnswer.status = 404

\* The body lacks one of type, name and implementation.
Lacks(body) ==
    \/ ~body.object
    \/ ~body.type.present
    \/ ~body.name.present
    \/ body.implementation.kind = "undefined"

\* C27: a POST /__integr8__/override that lacks one of type, name and
\* implementation is answered 400 'Invalid request' without a call of
\* applyOverride; a call of applyOverride is only made for a body with all three.
C27_IncompleteIs400 ==
    (/\ last.kind = "mw"
     /\ last.req.method = "POST"
     /\ last.req.path = OverridePath
     /\ adapter.available) =>
        /\ Lacks(last.req.body) =>
              /\ MwAnswer.status = 400
              /\ MwAnswer.body.error = "Invalid request"
              /\ last.calls = <<>>
        /\ last.calls # <<>> => ~Lacks(last.req.body)

\* C28: GET /__integr8__/health is answered 200 with status 'ok' and mode equal to
\* (INTEGR8_MODE === 'true') as the variable is at the time of the request, whether
\* or not an adapter is available; every other request under the prefix is
\* answered 503 without any adapter call when no adapter is available.
C28_HealthBeforeAdapter ==
    (last.kind = "mw" /\ StartsWithPrefix(last.req.path)) =>
        IF last.req.method = "GET" /\ last.req.path = HealthPath
        THEN /\ MwAnswer.status = 200
             /\ MwAnswer.body.kind = "health"
             /\ MwAnswer.body.status = "ok"
             /\ MwAnswer.body.mode = (envMode = Val(StrTrue))
             /\ last.calls = <<>>
        ELSE ~adapter.available =>
                /\ MwAnswer.status = 503
                /\ MwAnswer.body.error = "Integr8 adapter not available"
                /\ last.calls = <<>>
C28_Witness ==
    /\ MwHandled
    /\ last.req.path = HealthPath
    /\ ~adapter.available
    /\ MwAnswer.status = 200
    /\ MwAnswer.body.mode

\* The request asks for an adapter call, and what that call gives in this state.
AsksApply(req) ==
    /\ req.method = "POST"
    /\ req.path = OverridePath
    /\ req.body.object
    /\ ~Falsy(req.body.type)
    /\ ~Falsy(req.body.name)
    /\ Truthy(req.body.implementation)
AsksRemove(req) == req.method = "DELETE" /\ MatchesRemove(req.path)
AdapterCall(req) ==
    IF AsksApply(req)
    THEN applyOverride(adapter, live, req.body.type.text, req.body.name.text,
                       req.body.implementation)
    ELSE removeOverride(adapter, live, req.path[3], req.path[4])

\* C29: when applyOverride or removeOverride rejects during a request, the one
\* response of that request is 500 'Internal server error' with the message of
\* the failure, and no success response.
C29_RejectionIs500 ==
    [][ (/\ last'.kind = "mw"
         /\ adapter.available
         /\ AsksApply(last'.req) \/ AsksRemove(last'.req)
         /\ ~AdapterCall(last'.req).ok) =>
            /\ last'.responses =
                  <<MwResponse(500, ErrorBody("Internal server error",
                                              AdapterCall(last'.req).error))>>
            /\ ~last'.next ]_vars
C29_Witness ==
    /\ MwHandled
    /\ AsksRemove(last.req)
    /\ last.calls = <<"removeOverride">>
    /\ MwAnswer.status = 500
    /\ MwAnswer.body.message = Text("Remove failed")

\* C30: after a removeOverride(type, name) or a teardown, every property of the
\* provider holds the implementation it had before the first override, so that a
\* call of the provider runs the original.
C30_RemoveRestoresOriginal ==
    /\ last.kind = "teardown" => live = PristineLive
    /\ (/\ MwHandled
        /\ AsksRemove(last.req)
        /\ MwAnswer.status = 200
        /\ ModuleRefGet(last.req.path[4]).ok) =>
           LET p == ModuleRefGet(last.req.path[4]).provider
           IN  live[p] = PristineLive[p]

\* C31: once removeOverride(type, name) has resolved, hasOverride(type, name) is
\* false, whatever value had been applied under the key; and a removal of a key
\* that has no override resolves and leaves the adapter as it was.
C31_RemovedIsAbsent ==
    last.kind = "remove" =>
        /\ last.ok
        /\ ~hasOverride(adapter, last.type, last.name)
        /\ ~hasOverride(last.before, last.type, last.name) => adapter = last.before

\* C32: once applyOverride(type, name, impl) has resolved, hasOverride(type, name)
\* is true and getOverride(type, name) is the impl that was passed, for every type.
C32_AppliedIsStored ==
    (last.kind = "apply" /\ last.ok) =>
        /\ hasOverride(adapter, last.type, last.name)
        /\ getOverride(adapter, last.type, last.name) = last.implementation

\* C33: once teardown has resolved, the listing is empty and hasOverride is false
\* for every key, whatever applies and removals came before; and teardown
\* resolves in every state, the one without overrides included.
C33_TeardownClears ==
    /\ teardown(adapter, live).ok
    /\ last.kind = "teardown" =>
          /\ listOverrides(adapter) = <<>>
          /\ \A k \in AdapterKeys : ~hasOverride(adapter, k.type, k.name)
          /\ ~hasOverride(adapter, Text("provider"), Text("UserService"))
C33_Witness ==
    /\ last.kind = "teardown"
    /\ Len(listOverrides(last.before)) >= 2
    /\ listOverrides(adapter) = <<>>

\* C36: an applyOverride that rejects leaves the override state as it was before
\* the call: the listing and hasOverride of the key are unchanged.
C36_RejectedApplyLeavesState ==
    (last.kind = "apply" /\ ~last.ok) =>
        /\ listOverrides(adapter) = listOverrides(last.before)
        /\ hasOverride(adapter, last.type, last.name)
              = hasOverride(last.before, last.type, last.name)

\* C37: an applyOverride(type, name, impl) followed by removeOverride(type, name)
\* gives back the listing there was before the apply, and after an apply the
\* listing has an entry with the type and name that were applied.
C37_ApplyRemoveRoundTrip ==
    [][ /\ (/\ last.kind = "apply"
            /\ last.ok
            /\ last'.kind = "remove"
            /\ last'.type = last.type
            /\ last'.name = last.name) =>
               listOverrides(adapter') = listOverrides(last.before)
        /\ (last'.kind = "apply" /\ last'.ok) =>
               \E i \in 1..Len(listOverrides(adapter')) :
                   /\ listOverrides(adapter')[i].type = last'.type
                   /\ listOverrides(adapter')[i].name = last'.name ]_vars

\* C38: at bootstrap a provider whose identity is already wrapped is skipped, and
\* whenever an instance is patched, what each of its wrappers falls through to is
\* the method of the class, never a wrapper, also when the instance has been
\* discovered under another identity before.
C38_WrappedOnce ==
    [][ /\ (last.rest # <<>> /\ Head(last.rest).token \in DOMAIN proxies) =>
               (proxies' = proxies /\ last'.kind = "skip")
        /\ last'.kind = "wrap" =>
               \A name \in DOMAIN last'.bound : last'.bound[name] = "original" ]_vars

\* C34: a call takes its target from the registry as it is when the call is made:
\* without a record it runs the original, with a factory it runs that factory,
\* with a patch for the operation and no factory it runs that patch; and what a
\* call that returned a promise is fulfilled with is what the function invoked at
\* the time of the call gives, whatever was applied or reset in the meantime.
C34_DecidedAtCall ==
    /\ last.kind = "call" =>
          LET T == last.token
          IN  /\ ~Has(store, T) => last.out.ran = <<Ran("original", last.m)>>
              /\ (Has(store, T) /\ store[T].factory # NoFn) =>
                     last.out.ran[1] = Ran("factory", store[T].factory.body)
              /\ (/\ Has(store, T)
                  /\ store[T].factory = NoFn
                  /\ store[T].hasMethods
                  /\ MapHas(store[T].methods, last.m)) =>
                     last.out.ran[1] = Ran("patch", MapFn(store[T].methods, last.m).body)
    /\ last.kind = "settled" =>
          last.val = Fulfilment(Wrapper(last.seen, last.token, last.m, last.args).val)
\* A pending call settles after the registry was changed in a way that a call made
\* now would show.
C34_Witness ==
    /\ last.kind = "settled"
    /\ store # last.seen
    /\ Wrapper(store, last.token, last.m, last.args).val
          # Wrapper(last.seen, last.token, last.m, last.args).val

\* How often the factory ran in the course of a call.
FactoryRuns(out) == Cardinality({ i \in 1..Len(out.ran) : out.ran[i].unit = "factory" })

\* C35: while T has a factory, every call of a wrapped operation of T invokes the
\* factory exactly once and, when the product has the operation, gives what a
\* product fresh from the factory gives: the count a product keeps starts anew
\* with every call.
C35_FreshProductPerCall ==
    (last.kind = "call" /\ Has(store, last.token) /\ store[last.token].factory # NoFn) =>
        LET made == Exec(store[last.token].factory, UndefV, <<>>)
        IN  /\ FactoryRuns(last.out) = 1
            /\ (made.kind = "return" /\ Exposes(made.val, last.m)) =>
                   /\ LastEnd = CallObjMethod(made.val, last.m, last.args)
                   /\ made.val.s = "objCounter" => last.out.val = NumV(1)
C35_Witness ==
    /\ last.kind = "call"
    /\ Ran("product", "objCounter") \in {last.out.ran[i] : i \in 1..Len(last.out.ran)}
    /\ last.out.val = NumV(1)

\* C39: the registry changes only in a step that is an admitted apply, reset or
\* reset-all request answered 201: calls, list and health requests, requests the
\* gate denies and requests answered with an error leave it as it was; and no
\* step changes the wrapped identities.
C39_OnlyRequestsMutate ==
    [][ /\ proxies' = proxies
        /\ store' # store =>
              /\ last'.kind = "req"
              /\ last'.route \in {"set", "resetAll"}
              /\ last'.gate \notin {"disabled", "unauthorized"}
              /\ last'.resp.status = 201 ]_vars
C39_Witness ==
    /\ last.kind = "call"
    /\ last.out.target = "patch"
    /\ Has(store, last.token)
    /\ last.seen = RegGet(store, last.token)

\* C40: an admitted POST override/reset-all is handled by resetAll whatever its
\* body: the registry is empty afterwards, with no record under 'reset-all'.
C40_ResetAllNotAToken ==
    (/\ last.kind = "req"
     /\ last.req.method = "POST"
     /\ last.req.path = <<"override", "reset-all">>) =>
        /\ last.route = "resetAll"
        /\ ~Has(store, "reset-all")
        /\ last.gate \notin {"disabled", "unauthorized"} =>
              /\ DOMAIN store = {}
              /\ last.resp.data.kind = "resetAll"
C40_Witness ==
    /\ last.kind = "req"
    /\ last.req.path = <<"override", "reset-all">>
    /\ last.req.body = FactoryPayload(BodyProdX)
    /\ last.resp.status = 201
    /\ hist["Calc"] = "cleared"
    /\ DOMAIN store = {}

====
